---------------------------- MODULE Spec2Model ----------------------------
(***************************************************************************)
(* FocusSphere client (frontend/src/App.jsx, PomodoroTimer.jsx,            *)
(* Profile.jsx): two clients that share one study room.                    *)
(*                                                                         *)
(* A handler of a React component is one action: the state updates it      *)
(* batches, the render that follows and the effects that render triggers   *)
(* are part of the action.  The server is not part of the repository's     *)
(* sources; the relay actions model it from the specification.             *)
(***************************************************************************)
EXTENDS Integers, Sequences, FiniteSets, TLC

\* ------------------------------------------------------------------ bounds
MaxActions == 2     \* timer control handlers invoked by the users, in total
MaxTicks   == 4     \* one-second countdown ticks, in total
MaxCount   == 3     \* pomodoros already completed when a countdown is observed
MaxSends   == 2     \* chat forms submitted, in total
MaxNow     == 1     \* milliseconds that Date.now() advances, in total
MaxQueue   == 2     \* events waiting at one client when one is duplicated
MaxInvites == 2     \* invitation requests issued by the users, in total
MaxAccepts == 1     \* clicks on "Accept" of the invite pop-up, in total
MaxLeaves  == 2     \* clicks on "Leave Session", in total
MaxFetches == 2     \* fetchSessionPartner calls, in total
MaxConnects == 1    \* 'connect' events of the sockets, in total
MaxSearches == 1    \* a match search registers while the user has had fewer
                    \* registerSocketWithRetry calls than this
MaxRetries == 2     \* attempts of one registerSocketWithRetry call
MaxDeliveries == 2  \* match_confirmed events delivered once more, in total

Clients == {1, 2}   \* the two participants of the room
CustomMinutes == {1}  \* answers to the "custom duration in minutes" prompt
Inviters == {1}     \* the users who send invitations

\* whom a user finds in the match list and, online, in the friend list
Friends == [c \in Clients |-> IF c \in Inviters THEN Clients \ {c} ELSE {}]

\* what a user may have typed into the chat box (newMessage)
Texts == { << >>, << " " >>, << "h", "i" >>, << " ", "h", "i", " " >> }

\* ------------------------------------------------- PomodoroTimer constants
Modes == {"pomodoro", "short", "long"}

NullTime == -1      \* JavaScript null, as the time of the 'Custom' preset

DEFAULT_POMODORO_TIME    == 25 * 60
DEFAULT_SHORT_BREAK_TIME == 5 * 60
DEFAULT_LONG_BREAK_TIME  == 15 * 60

TIMER_PRESETS ==
  [ pomodoro |-> [i \in 0..3 |-> CASE i = 0 -> 25 * 60
                                   [] i = 1 -> 15 * 60
                                   [] i = 2 -> 45 * 60
                                   [] i = 3 -> NullTime],
    short    |-> [i \in 0..2 |-> CASE i = 0 -> 3 * 60
                                   [] i = 1 -> 5 * 60
                                   [] i = 2 -> 10 * 60],
    long     |-> [i \in 0..2 |-> CASE i = 0 -> 10 * 60
                                   [] i = 1 -> 15 * 60
                                   [] i = 2 -> 30 * 60] ]

\* --------------------------------------------------------------- variables
VARIABLES
  \* PomodoroTimer component state, per client
  timeRemaining, isRunning, mode, pomodoroCount, autoStartBreaks,
  customDurations, selectedPreset,
  autoTimers,        \* pending 2000 ms timeouts of the completion branch
  outbox,            \* timer_action events emitted, not yet relayed
  inbox,             \* timer_update events broadcast, not yet handled
  completedEmits,    \* number of pomodoro_completed events emitted
  appPomodoroCount,  \* App's pomodoroCount (onPomodoroComplete callback)
  burst,             \* history since the room was last quiet (nothing in
                     \* flight): who emitted a timer_action, whether a local
                     \* clock fired, and whether a reset was called on a
                     \* running, partly elapsed timer
  nActions, nTicks,  \* counters that bound the exploration
  \* App component state, per client
  sessionRoom, sessionId, messages,
  sockOut,           \* events the client emitted, not yet handled by the server
  sockIn,            \* events the server sent, not yet handled by the client
  \* server
  nextMessageId,     \* the chat relay's message id counter
  \* environment
  now,               \* Date.now()
  nSends,            \* counter that bounds the exploration
  \* App component state, per client: invitations
  incomingInvite, inviteTimer, outgoingInvite, outgoingInviteTimer,
  message, matchResults,
  inviteCalls,       \* invitation requests (HTTP) not yet returned
  acceptWaits,       \* handleAcceptInvite calls still waiting for an answer
  \* Profile component state, per client
  profileMessage,
  profileClears,     \* armed 3000 ms timeouts that clear profileMessage
  \* server
  pendingInvite,     \* the Pending invitation of each inviter
  nextRoom,          \* the session manager's room counter
  \* history
  resolved,          \* accepts, declines and local expiries performed by a
                     \* client on the invitation its pop-up shows
  cleared,           \* how the outgoing invitation of a client was cleared
                     \* last: "declined", "matched", "expired"
  nInvites, nAccepts, \* counters that bound the exploration
  \* App component state, per client: session
  sessionPartner, showRatingModal,
  leaveCalls,        \* handleLeaveSession calls awaiting endCurrentSession
  partnerCalls,      \* fetchSessionPartner calls that have not returned
  \* App component state, per client: connection
  isSocketRegistered,
  regCalls,          \* registerSocketWithRetry calls that have not returned
  \* the socket and localStorage of each client
  connected, token,
  \* server
  joined,            \* the room each user is a member of
  endRequests,       \* POST /api/sessions/end requests received, per user
  \* history
  regReturns,        \* results of the registerSocketWithRetry calls
  statusRequests,    \* PUT /api/users/me/status requests sent, per user
  currentView,       \* App: 'dashboard', 'stats' or 'profile'
  nLeaves, nFetches, nConnects, nDeliveries \* counters that bound the
                     \* exploration

timerVars == << timeRemaining, isRunning, mode, pomodoroCount, autoStartBreaks,
                customDurations, selectedPreset, autoTimers, outbox, inbox,
                completedEmits, appPomodoroCount, burst, nActions, nTicks >>

chatVars == << sessionRoom, sessionId, messages, sockOut, sockIn,
               nextMessageId, now, nSends >>

inviteVars == << incomingInvite, inviteTimer, outgoingInvite,
                 outgoingInviteTimer, message, matchResults, inviteCalls,
                 acceptWaits, profileMessage, profileClears, pendingInvite,
                 nextRoom, resolved, cleared, nInvites, nAccepts >>

leaveVars == << sessionPartner, showRatingModal, leaveCalls, endRequests,
                nLeaves >>

partnerVars == << partnerCalls, nFetches >>

connVars == << isSocketRegistered, regCalls, connected, token, regReturns,
              statusRequests,
               nConnects >>

sessionVars == << leaveVars, partnerVars, connVars, joined, nDeliveries,
                 currentView >>

vars == << timerVars, chatVars, inviteVars, sessionVars >>

\* ------------------------------------------------------------ PomodoroTimer

\* getCurrentDuration, on explicit arguments
GetDuration(m, sp, cd) ==
  LET preset == TIMER_PRESETS[m][sp[m]]
  IN  IF preset # NullTime THEN preset ELSE cd[m]

getCurrentDuration(c) ==
  GetDuration(mode[c], selectedPreset[c], customDurations[c])

\* getProgress: elapsed share of the full duration, in percent (floored)
getProgress(c) ==
  ((getCurrentDuration(c) - timeRemaining[c]) * 100) \div getCurrentDuration(c)

\* sendTimerAction: the timer_action it emits (closureTime is the
\* timeRemaining of the render the calling handler belongs to)
sendTimerAction(action, newTime, newMode, closureTime) ==
  [ action |-> action,
    time   |-> IF newTime # NullTime THEN newTime ELSE closureTime,
    mode   |-> newMode ]

\* a completion branch that always picks the short break
AutoClosure_AlwaysShort(m, tr, run, sp, cd, newCount) ==
  [ target |-> IF m = "pomodoro" THEN "short" ELSE "pomodoro",
    mode |-> m, timeRemaining |-> tr, isRunning |-> run,
    selectedPreset |-> sp, customDurations |-> cd, stale |-> FALSE ]

\* The timeout the completion branch schedules: what its callback will read
\* from the render in which the completion ran.
AutoClosure(m, tr, run, sp, cd, newCount) ==
  [ target |-> IF m = "pomodoro"
                 THEN (IF newCount % 4 = 0 THEN "long" ELSE "short")
                 ELSE "pomodoro",
    mode |-> m, timeRemaining |-> tr, isRunning |-> run,
    selectedPreset |-> sp, customDurations |-> cd, stale |-> FALSE ]

NoRoom == 0        \* sessionRoom / sessionId null

\* App renders PomodoroTimer inside the dashboard view, while sessionRoom is
\* set
Mounted(c) == currentView[c] = "dashboard" /\ sessionRoom[c] # NoRoom

\* no timer_action and no timer_update is in flight
Quiet ==
  \A d \in Clients : outbox[d] = << >> /\ inbox[d] = << >>

\* the history after client c emitted sent; clock tells a step of c's own
\* clock (the countdown interval, the completion timeout)
BurstAfter(c, sent, clock) ==
  LET base == IF Quiet /\ sent # << >>
                THEN [issuers |-> {}, ticked |-> FALSE, resetPartial |-> FALSE]
                ELSE burst
      acts == { sent[i].action : i \in 1..Len(sent) }
  IN  [ issuers |-> base.issuers \cup (IF sent # << >> THEN {c} ELSE {}),
        ticked |-> base.ticked \/ clock,
        resetPartial |->
          \/ base.resetPartial
          \/ /\ "reset" \in acts
             /\ isRunning[c]
             /\ timeRemaining[c] < getCurrentDuration(c) ]

\* a completion branch that leaves the timer running
CommitWith_KeepsRunning(c, m2, tr2, run2, sp2, cd2, changed, sent, pending, clock) ==
  LET complete == run2 /\ tr2 = 0
      counted  == complete /\ m2 = "pomodoro"
      newCount == pomodoroCount[c] + 1
  IN  /\ mode' = [mode EXCEPT ![c] = m2]
      /\ timeRemaining' =
           [timeRemaining EXCEPT ![c] =
              IF changed THEN GetDuration(m2, sp2, cd2) ELSE tr2]
      /\ isRunning' = [isRunning EXCEPT ![c] = run2]
      /\ selectedPreset' = [selectedPreset EXCEPT ![c] = sp2]
      /\ customDurations' = [customDurations EXCEPT ![c] = cd2]
      /\ pomodoroCount' =
           [pomodoroCount EXCEPT ![c] = IF counted THEN newCount ELSE @]
      /\ completedEmits' =
           [completedEmits EXCEPT ![c] = IF counted THEN @ + 1 ELSE @]
      /\ appPomodoroCount' =
           [appPomodoroCount EXCEPT ![c] = IF counted THEN @ + 1 ELSE @]
      /\ autoTimers' =
           [autoTimers EXCEPT ![c] =
              IF complete /\ autoStartBreaks[c]
                THEN Append(pending,
                            AutoClosure(m2, tr2, run2, sp2, cd2, newCount))
                ELSE pending]
      /\ outbox' = [outbox EXCEPT ![c] = @ \o sent]
      /\ burst' = BurstAfter(c, sent, clock)

\* One commit of client c: the handler's batched state (m2, tr2, run2, sp2,
\* cd2), then the effects of that render:
\*  - duration initialisation effect, when mode / selectedPreset /
\*    customDurations changed (changed): timeRemaining := full duration;
\*  - countdown effect, completion branch, when the render has
\*    isRunning and timeRemaining = 0.
\* sent is the sequence of timer_action events the handler emitted, pending
\* the timeouts of c that are still to fire, clock as in BurstAfter.
CommitWith(c, m2, tr2, run2, sp2, cd2, changed, sent, pending, clock) ==
  LET complete == run2 /\ tr2 = 0
      counted  == complete /\ m2 = "pomodoro"
      newCount == pomodoroCount[c] + 1
  IN  /\ mode' = [mode EXCEPT ![c] = m2]
      /\ timeRemaining' =
           [timeRemaining EXCEPT ![c] =
              IF changed THEN GetDuration(m2, sp2, cd2) ELSE tr2]
      /\ isRunning' = [isRunning EXCEPT ![c] = IF complete THEN FALSE ELSE run2]
      /\ selectedPreset' = [selectedPreset EXCEPT ![c] = sp2]
      /\ customDurations' = [customDurations EXCEPT ![c] = cd2]
      /\ pomodoroCount' =
           [pomodoroCount EXCEPT ![c] = IF counted THEN newCount ELSE @]
      /\ completedEmits' =
           [completedEmits EXCEPT ![c] = IF counted THEN @ + 1 ELSE @]
      /\ appPomodoroCount' =
           [appPomodoroCount EXCEPT ![c] = IF counted THEN @ + 1 ELSE @]
      /\ autoTimers' =
           [autoTimers EXCEPT ![c] =
              IF complete /\ autoStartBreaks[c]
                THEN Append(pending,
                            AutoClosure(m2, tr2, run2, sp2, cd2, newCount))
                ELSE pending]
      /\ outbox' = [outbox EXCEPT ![c] = @ \o sent]
      /\ burst' = BurstAfter(c, sent, clock)

\* a commit made by a handler of the mounted component
Commit(c, m2, tr2, run2, sp2, cd2, changed, sent) ==
  /\ Mounted(c)
  /\ CommitWith(c, m2, tr2, run2, sp2, cd2, changed, sent, autoTimers[c],
                FALSE)

\* an interval callback that also broadcasts the new time
Tick_Broadcasts(c) ==
  /\ nTicks < MaxTicks
  /\ Mounted(c)
  /\ isRunning[c] /\ timeRemaining[c] > 0
  /\ nTicks' = nTicks + 1
  /\ CommitWith(c, mode[c], timeRemaining[c] - 1, TRUE,
                selectedPreset[c], customDurations[c], FALSE,
                << sendTimerAction("start", timeRemaining[c] - 1, mode[c],
                                   timeRemaining[c]) >>,
                autoTimers[c], TRUE)
  /\ UNCHANGED << autoStartBreaks, inbox, nActions, chatVars, inviteVars,
                  sessionVars >>

\* countdown effect, tick branch: the interval callback
Tick(c) ==
  /\ nTicks < MaxTicks
  /\ Mounted(c)
  /\ isRunning[c] /\ timeRemaining[c] > 0
  /\ nTicks' = nTicks + 1
  /\ CommitWith(c, mode[c], timeRemaining[c] - 1, TRUE,
                selectedPreset[c], customDurations[c], FALSE, << >>,
                autoTimers[c], TRUE)
  /\ UNCHANGED << autoStartBreaks, inbox, nActions, chatVars, inviteVars,
                  sessionVars >>

\* handleStartPause, as called from a render with the given state
StartPauseEmit(run, tr, m) ==
  IF run THEN sendTimerAction("pause", NullTime, m, tr)
         ELSE sendTimerAction("start", tr, m, tr)

\* a handleStartPause that also starts or pauses its own timer
handleStartPause_Local(c) ==
  /\ nActions < MaxActions
  /\ nActions' = nActions + 1
  /\ Commit(c, mode[c], timeRemaining[c], ~isRunning[c],
            selectedPreset[c], customDurations[c], FALSE,
            << StartPauseEmit(isRunning[c], timeRemaining[c], mode[c]) >>)
  /\ UNCHANGED << autoStartBreaks, inbox, nTicks, chatVars, inviteVars,
                  sessionVars >>

\* handleStartPause: a click on the Start / Pause button
handleStartPause(c) ==
  /\ nActions < MaxActions
  /\ nActions' = nActions + 1
  /\ Commit(c, mode[c], timeRemaining[c], isRunning[c],
            selectedPreset[c], customDurations[c], FALSE,
            << StartPauseEmit(isRunning[c], timeRemaining[c], mode[c]) >>)
  /\ UNCHANGED << autoStartBreaks, inbox, nTicks, chatVars, inviteVars,
                  sessionVars >>

\* a handleReset that sends what is left on the clock
ResetEmit_Remaining(c) ==
  sendTimerAction("reset", NullTime, mode[c], timeRemaining[c])

\* the timer_action handleReset emits
ResetEmit(c) ==
  sendTimerAction("reset", getCurrentDuration(c), mode[c], timeRemaining[c])

handleReset(c) ==
  /\ nActions < MaxActions
  /\ nActions' = nActions + 1
  /\ Commit(c, mode[c], getCurrentDuration(c), FALSE,
            selectedPreset[c], customDurations[c], FALSE, << ResetEmit(c) >>)
  /\ UNCHANGED << autoStartBreaks, inbox, nTicks, chatVars, inviteVars,
                  sessionVars >>

handleSkip(c) ==
  /\ nActions < MaxActions
  /\ nActions' = nActions + 1
  /\ Commit(c, mode[c], timeRemaining[c], isRunning[c],
            selectedPreset[c], customDurations[c], FALSE,
            << sendTimerAction("skip", 0, mode[c], timeRemaining[c]) >>)
  /\ UNCHANGED << autoStartBreaks, inbox, nTicks, chatVars, inviteVars,
                  sessionVars >>

\* handleSetMode(newMode), not silent: a click on a mode button
handleSetMode(c, newMode) ==
  LET newTime == GetDuration(newMode, selectedPreset[c], customDurations[c])
  IN  /\ nActions < MaxActions
      /\ nActions' = nActions + 1
      /\ Commit(c, newMode, newTime, isRunning[c],
                selectedPreset[c], customDurations[c], newMode # mode[c],
                << sendTimerAction("set_mode", newTime, newMode,
                                   timeRemaining[c]) >>)
      /\ UNCHANGED << autoStartBreaks, inbox, nTicks, chatVars, inviteVars,
                  sessionVars >>

\* handlePresetChange(newPresetIndex): a click on a preset that has a time
handlePresetChange(c, idx) ==
  LET t == TIMER_PRESETS[mode[c]][idx]
  IN  /\ nActions < MaxActions
      /\ idx \in DOMAIN TIMER_PRESETS[mode[c]]
      /\ t # NullTime
      /\ nActions' = nActions + 1
      /\ Commit(c, mode[c], t, isRunning[c],
                [selectedPreset[c] EXCEPT ![mode[c]] = idx],
                customDurations[c], TRUE,
                << sendTimerAction("set_mode", t, mode[c], timeRemaining[c]) >>)
      /\ UNCHANGED << autoStartBreaks, inbox, nTicks, chatVars, inviteVars,
                  sessionVars >>

\* handleCustomDurationChange(minutes * 60): a click on the 'Custom' preset
\* (a preset without a time) answered with a positive number of minutes
handleCustomDurationChange(c, minutes) ==
  LET d == minutes * 60
  IN  /\ nActions < MaxActions
      /\ \E i \in DOMAIN TIMER_PRESETS[mode[c]] :
            TIMER_PRESETS[mode[c]][i] = NullTime
      /\ nActions' = nActions + 1
      /\ Commit(c, mode[c], d, isRunning[c], selectedPreset[c],
                [customDurations[c] EXCEPT ![mode[c]] = d], TRUE,
                << sendTimerAction("set_mode", d, mode[c], timeRemaining[c]) >>)
      /\ UNCHANGED << autoStartBreaks, inbox, nTicks, chatVars, inviteVars,
                  sessionVars >>

\* the "Auto-start breaks" switch
toggleAutoStartBreaks(c) ==
  /\ nActions < MaxActions
  /\ Mounted(c)
  /\ nActions' = nActions + 1
  /\ autoStartBreaks' = [autoStartBreaks EXCEPT ![c] = ~@]
  /\ UNCHANGED << timeRemaining, isRunning, mode, pomodoroCount,
                  customDurations, selectedPreset, autoTimers, outbox, inbox,
                  completedEmits, appPomodoroCount, burst, nTicks, chatVars, inviteVars,
                  sessionVars >>

\* the timeout of the completion branch fires:
\* handleSetMode(target, true); handleStartPause(), both of the old render.
\* The timeout is not cleared on unmount: a stale one sets the state of the
\* unmounted component, which does nothing, and still emits.
AutoAdvance(c) ==
  /\ autoTimers[c] # << >>
  /\ LET cl == Head(autoTimers[c])
         newTime == GetDuration(cl.target, cl.selectedPreset, cl.customDurations)
         emitted == << StartPauseEmit(cl.isRunning, cl.timeRemaining, cl.mode) >>
     IN  IF cl.stale
           THEN CommitWith(c, mode[c], timeRemaining[c], isRunning[c],
                           selectedPreset[c], customDurations[c], FALSE,
                           emitted, Tail(autoTimers[c]), TRUE)
           ELSE CommitWith(c, cl.target, newTime, isRunning[c],
                           selectedPreset[c], customDurations[c],
                           cl.target # mode[c], emitted,
                           Tail(autoTimers[c]), TRUE)
  /\ UNCHANGED << autoStartBreaks, inbox, nActions, nTicks, chatVars,
                  inviteVars, sessionVars >>

\* The relay, from the specification (4.4, 6): the server takes one
\* timer_action and broadcasts it verbatim, as timer_update, to the room.
RelayTimerAction(c) ==
  /\ outbox[c] # << >>
  /\ outbox' = [outbox EXCEPT ![c] = Tail(@)]
  /\ inbox' = [d \in Clients |-> Append(inbox[d], Head(outbox[c]))]
  /\ UNCHANGED << timeRemaining, isRunning, mode, pomodoroCount,
                  autoStartBreaks, customDurations, selectedPreset, autoTimers,
                  completedEmits, appPomodoroCount, burst, nActions, nTicks,
                  chatVars, inviteVars,
                  sessionVars >>

\* a handleTimerUpdate whose 'skip' stops the clock at 0
TimerUpdateResult_SkipStops(data, m, tr, run, sp, cd) ==
  CASE data.action = "start" ->
         << m, IF data.time # 0 /\ data.time # NullTime THEN data.time ELSE tr,
            TRUE >>
    [] data.action = "pause" -> << m, tr, FALSE >>
    [] data.action = "reset" ->
         << data.mode,
            IF data.time # NullTime THEN data.time
                                    ELSE GetDuration(data.mode, sp, cd),
            FALSE >>
    [] data.action = "skip" -> << m, 0, FALSE >>
    [] data.action = "set_mode" -> << data.mode, data.time, FALSE >>

\* handleTimerUpdate(data): the state it sets, << mode, timeRemaining,
\* isRunning >>, from the state of the render it was registered in
TimerUpdateResult(data, m, tr, run, sp, cd) ==
  CASE data.action = "start" ->
         << m, IF data.time # 0 /\ data.time # NullTime THEN data.time ELSE tr,
            TRUE >>
    [] data.action = "pause" -> << m, tr, FALSE >>
    [] data.action = "reset" ->
         << data.mode,
            IF data.time # NullTime THEN data.time
                                    ELSE GetDuration(data.mode, sp, cd),
            FALSE >>
    [] data.action = "skip" -> << m, 0, TRUE >>
    [] data.action = "set_mode" -> << data.mode, data.time, FALSE >>

\* the timer_update listener of client c handles the next broadcast
handleTimerUpdate(c) ==
  /\ inbox[c] # << >>
  /\ LET data == Head(inbox[c])
         r == TimerUpdateResult(data, mode[c], timeRemaining[c], isRunning[c],
                                selectedPreset[c], customDurations[c])
     IN  Commit(c, r[1], r[2], r[3], selectedPreset[c], customDurations[c],
                r[1] # mode[c], << >>)
  /\ inbox' = [inbox EXCEPT ![c] = Tail(@)]
  /\ UNCHANGED << autoStartBreaks, nActions, nTicks, chatVars, inviteVars,
                  sessionVars >>

\* PomodoroTimer as mounted: the useState initial values
TimerInit ==
  /\ timeRemaining = [c \in Clients |-> DEFAULT_POMODORO_TIME]
  /\ isRunning = [c \in Clients |-> FALSE]
  /\ mode = [c \in Clients |-> "pomodoro"]
  /\ pomodoroCount = [c \in Clients |-> 0]
  /\ autoStartBreaks = [c \in Clients |-> TRUE]
  /\ customDurations =
       [c \in Clients |-> [pomodoro |-> DEFAULT_POMODORO_TIME,
                           short |-> DEFAULT_SHORT_BREAK_TIME,
                           long |-> DEFAULT_LONG_BREAK_TIME]]
  /\ selectedPreset =
       [c \in Clients |-> [pomodoro |-> 0, short |-> 1, long |-> 1]]
  /\ autoTimers = [c \in Clients |-> << >>]
  /\ outbox = [c \in Clients |-> << >>]
  /\ inbox = [c \in Clients |-> << >>]
  /\ completedEmits = [c \in Clients |-> 0]
  /\ appPomodoroCount = [c \in Clients |-> 0]
  /\ burst = [issuers |-> {}, ticked |-> FALSE, resetPartial |-> FALSE]
  /\ nActions = 0
  /\ nTicks = 0

TimerNext ==
  \/ \E c \in Clients : Tick(c)
  \/ \E c \in Clients : handleStartPause(c)
  \/ \E c \in Clients : handleReset(c)
  \/ \E c \in Clients : handleSkip(c)
  \/ \E c \in Clients : \E m \in Modes : handleSetMode(c, m)
  \/ \E c \in Clients : \E i \in 0..3 : handlePresetChange(c, i)
  \/ \E c \in Clients : \E mins \in CustomMinutes :
        handleCustomDurationChange(c, mins)
  \/ \E c \in Clients : toggleAutoStartBreaks(c)
  \/ \E c \in Clients : AutoAdvance(c)
  \/ \E c \in Clients : RelayTimerAction(c)
  \/ \E c \in Clients : handleTimerUpdate(c)

\* ---------------------------------------------------------------- App: chat

Room1 == 1         \* the room of the session both clients are in
Outsider == 3      \* a user who is not one of Clients
NoUser == 0        \* incomingInvite / outgoingInvite null
INVITE_SECONDS == 15   \* setInviteTimer(15), setOutgoingInviteTimer(15)

\* String.prototype.trim on a sequence of characters
RECURSIVE TrimLeft(_)
TrimLeft(t) == IF t # << >> /\ Head(t) = " " THEN TrimLeft(Tail(t)) ELSE t

RECURSIVE TrimRight(_)
TrimRight(t) ==
  IF t # << >> /\ t[Len(t)] = " "
    THEN TrimRight(SubSeq(t, 1, Len(t) - 1))
    ELSE t

Trim(t) == TrimRight(TrimLeft(t))

\* the optimistic copy handleSendMessage inserts; lid is not a field of the
\* program's object: it names the logical message (sender, send number)
TempMessage(c, text, lid) ==
  [ id |-> [kind |-> "temp", n |-> now], sender |-> "You", text |-> text,
    lid |-> lid ]

\* handleSendMessage with newMessage = typed
handleSendMessage(c, typed) ==
  /\ nSends < MaxSends
  /\ nSends' = nSends + 1
  /\ IF Trim(typed) = << >> \/ sessionRoom[c] = NoRoom
       THEN UNCHANGED << messages, sockOut >>
       ELSE LET lid == << c, nSends + 1 >>
            IN  /\ messages' =
                     [messages EXCEPT ![c] =
                        Append(@, TempMessage(c, Trim(typed), lid))]
                /\ sockOut' =
                     [sockOut EXCEPT ![c] =
                        Append(@, [type |-> "send_message",
                                   room_id |-> sessionRoom[c],
                                   text |-> Trim(typed), lid |-> lid])]
  /\ UNCHANGED << sessionRoom, sessionId, sockIn, nextMessageId, now,
                  timerVars, inviteVars,
                  sessionVars >>

\* a receive_message listener that does not look at the id
ReceiveMessage_Appends(prevMessages, messageData) ==
  Append(prevMessages, messageData)

\* the list the receive_message listener leaves
ReceiveMessage(prevMessages, messageData) ==
  IF \E i \in 1..Len(prevMessages) : prevMessages[i].id = messageData.id
    THEN prevMessages
    ELSE Append(prevMessages, messageData)

\* the receive_message listener handles the next event
receive_message(c) ==
  /\ sockIn[c] # << >>
  /\ Head(sockIn[c]).type = "receive_message"
  /\ messages' =
       [messages EXCEPT ![c] = ReceiveMessage(@, Head(sockIn[c]).data)]
  /\ sockIn' = [sockIn EXCEPT ![c] = Tail(@)]
  /\ UNCHANGED << sessionRoom, sessionId, sockOut, nextMessageId, now, nSends,
                  timerVars, inviteVars,
                  sessionVars >>

\* The chat relay, from the specification (4.5): it assigns a unique message
\* id and broadcasts receive_message to the members of the room, the sender
\* included.
ChatRelaySend(c) ==
  /\ sockOut[c] # << >>
  /\ Head(sockOut[c]).type = "send_message"
  /\ LET m == Head(sockOut[c])
         data == [ id |-> [kind |-> "server", n |-> nextMessageId],
                   sender |-> "user", text |-> m.text, lid |-> m.lid ]
     IN  sockIn' =
           [d \in Clients |->
              IF sessionRoom[d] = m.room_id
                THEN Append(sockIn[d], [type |-> "receive_message", data |-> data])
                ELSE sockIn[d]]
  /\ nextMessageId' = nextMessageId + 1
  /\ sockOut' = [sockOut EXCEPT ![c] = Tail(@)]
  /\ UNCHANGED << sessionRoom, sessionId, messages, now, nSends, timerVars, inviteVars,
                  sessionVars >>

\* Duplicate delivery, from the specification (1, 4.5): the receive_message
\* at the head of a client's queue is delivered once more.
ChatRelayDuplicate(c) ==
  /\ sockIn[c] # << >>
  /\ Len(sockIn[c]) < MaxQueue
  /\ Head(sockIn[c]).type = "receive_message"
  /\ sockIn' = [sockIn EXCEPT ![c] = << Head(@) >> \o @]
  /\ UNCHANGED << sessionRoom, sessionId, messages, sockOut, nextMessageId,
                  now, nSends, timerVars, inviteVars,
                  sessionVars >>

\* a millisecond passes
ClockTick ==
  /\ now < MaxNow
  /\ now' = now + 1
  /\ UNCHANGED << sessionRoom, sessionId, messages, sockOut, sockIn,
                  nextMessageId, nSends, timerVars, inviteVars,
                  sessionVars >>

\* Every user is connected and registered;
\* no call is in flight; the server has each user in the room of the user's
\* session, and a user in a session has loaded the partner.
SessionIdle ==
  /\ showRatingModal = [c \in Clients |-> FALSE]
  /\ leaveCalls = [c \in Clients |-> << >>]
  /\ partnerCalls = [c \in Clients |-> << >>]
  /\ isSocketRegistered = [c \in Clients |-> TRUE]
  /\ regCalls = [c \in Clients |-> << >>]
  /\ connected = [c \in Clients |-> TRUE]
  /\ endRequests = [c \in Clients |-> << >>]
  /\ regReturns = [c \in Clients |-> << >>]
  /\ statusRequests = [c \in Clients |-> << >>]
  /\ nLeaves = 0
  /\ nFetches = 0
  /\ nConnects = 0
  /\ nDeliveries = 0
  /\ currentView = [c \in Clients |-> "dashboard"]

\* both clients in the session of room Room1, the chat still empty:
\* the state of App
RoomInit ==
  /\ SessionIdle
  /\ token = [c \in Clients |-> "valid"]
  /\ joined = [c \in Clients |-> Room1]
  /\ sessionPartner = [c \in Clients |-> CHOOSE d \in Clients : d # c]
  /\ sessionRoom = [c \in Clients |-> Room1]
  /\ sessionId = [c \in Clients |-> 1]
  /\ messages = [c \in Clients |-> << >>]
  /\ sockOut = [c \in Clients |-> << >>]
  /\ sockIn = [c \in Clients |-> << >>]
  /\ nextMessageId = 1
  /\ now = 0
  /\ nSends = 0
  /\ incomingInvite = [c \in Clients |-> NoUser]
  /\ inviteTimer = [c \in Clients |-> INVITE_SECONDS]
  /\ outgoingInvite = [c \in Clients |-> NoUser]
  /\ outgoingInviteTimer = [c \in Clients |-> INVITE_SECONDS]
  /\ message = [c \in Clients |-> ""]
  /\ profileMessage = [c \in Clients |-> ""]
  /\ profileClears = [c \in Clients |-> 0]
  /\ matchResults = [c \in Clients |-> {}]
  /\ inviteCalls = [c \in Clients |-> << >>]
  /\ acceptWaits = [c \in Clients |-> << >>]
  /\ pendingInvite = [c \in Clients |-> NoUser]
  /\ nextRoom = Room1 + 1
  /\ resolved = [c \in Clients |-> 0]
  /\ cleared = [c \in Clients |-> ""]
  /\ nInvites = 0
  /\ nAccepts = 0

\* App in the session, the PomodoroTimer just mounted
ChatInit ==
  /\ TimerInit
  /\ RoomInit

ChatNext ==
  \/ \E c \in Clients : \E typed \in Texts : handleSendMessage(c, typed)
  \/ \E c \in Clients : ChatRelaySend(c)
  \/ \E c \in Clients : receive_message(c)
  \/ \E c \in Clients : ChatRelayDuplicate(c)
  \/ ClockTick

SpecChat == ChatInit /\ [][ChatNext]_vars

\* the timers of two clients that are in the session of room Room1
SpecTimer == ChatInit /\ [][TimerNext]_vars

\* ------------------------------------------------------- App: the views

Views == { "dashboard", "stats", "profile" }

\* setCurrentView(view): a click on a button of the navigation header.
\* Leaving the dashboard unmounts PomodoroTimer: its state is gone, the next
\* mount starts from the useState initial values; its interval is cleared,
\* the timeouts of its completion branch are not.
setCurrentView(c, view) ==
  /\ view # currentView[c]
  /\ currentView' = [currentView EXCEPT ![c] = view]
  /\ IF Mounted(c)
       THEN /\ timeRemaining' =
                 [timeRemaining EXCEPT ![c] = DEFAULT_POMODORO_TIME]
            /\ isRunning' = [isRunning EXCEPT ![c] = FALSE]
            /\ mode' = [mode EXCEPT ![c] = "pomodoro"]
            /\ pomodoroCount' = [pomodoroCount EXCEPT ![c] = 0]
            /\ autoStartBreaks' = [autoStartBreaks EXCEPT ![c] = TRUE]
            /\ customDurations' =
                 [customDurations EXCEPT ![c] =
                    [pomodoro |-> DEFAULT_POMODORO_TIME,
                     short |-> DEFAULT_SHORT_BREAK_TIME,
                     long |-> DEFAULT_LONG_BREAK_TIME]]
            /\ selectedPreset' =
                 [selectedPreset EXCEPT ![c] =
                    [pomodoro |-> 0, short |-> 1, long |-> 1]]
            /\ autoTimers' =
                 [autoTimers EXCEPT ![c] =
                    [k \in 1..Len(@) |-> [@[k] EXCEPT !.stale = TRUE]]]
       ELSE UNCHANGED << timeRemaining, isRunning, mode, pomodoroCount,
                         autoStartBreaks, customDurations, selectedPreset,
                         autoTimers >>
  /\ UNCHANGED << outbox, inbox, completedEmits, appPomodoroCount, burst,
                  nActions, nTicks, chatVars, inviteVars, leaveVars,
                  partnerVars, connVars, joined, nDeliveries >>

\* a timer_update reaches a client whose PomodoroTimer is not mounted: the
\* listener was removed by the cleanup of the sync effect
timer_update_unheard(c) ==
  /\ ~Mounted(c)
  /\ inbox[c] # << >>
  /\ inbox' = [inbox EXCEPT ![c] = Tail(@)]
  /\ UNCHANGED << timeRemaining, isRunning, mode, pomodoroCount,
                  autoStartBreaks, customDurations, selectedPreset,
                  autoTimers, outbox, completedEmits, appPomodoroCount,
                  burst, nActions, nTicks, chatVars, inviteVars,
                  sessionVars >>

ViewNext ==
  \/ \E c \in Clients : \E view \in Views : setCurrentView(c, view)
  \/ \E c \in Clients : timer_update_unheard(c)
  \/ \E c \in Clients : Tick(c)
  \/ \E c \in Clients : handleStartPause(c)
  \/ \E c \in Clients : handleSkip(c)
  \/ \E c \in Clients : \E m \in Modes : handleSetMode(c, m)
  \/ \E c \in Clients : AutoAdvance(c)
  \/ \E c \in Clients : RelayTimerAction(c)
  \/ \E c \in Clients : handleTimerUpdate(c)

\* the two clients of the session, using the timer and the navigation
SpecView == ChatInit /\ [][ViewNext]_vars

\* ------------------------------------------------- PomodoroTimer: countdown
\*
\* The last seconds of an interval, with nobody touching the controls and no
\* timer_update arriving: only the interval callback and the completion
\* timeout run. The timers are observed late in a session: some pomodoros
\* are already counted, the timer may be running or paused in any mode.

LastSeconds == 1..(MaxTicks \div Cardinality(Clients))

CountdownInit ==
  /\ RoomInit
  /\ timeRemaining \in [Clients -> LastSeconds]
  /\ isRunning \in [Clients -> BOOLEAN]
  /\ mode \in [Clients -> Modes]
  /\ pomodoroCount \in [Clients -> 0..MaxCount]
  /\ autoStartBreaks \in [Clients -> BOOLEAN]
  /\ customDurations =
       [c \in Clients |-> [pomodoro |-> DEFAULT_POMODORO_TIME,
                           short |-> DEFAULT_SHORT_BREAK_TIME,
                           long |-> DEFAULT_LONG_BREAK_TIME]]
  /\ selectedPreset =
       [c \in Clients |-> [pomodoro |-> 0, short |-> 1, long |-> 1]]
  /\ autoTimers = [c \in Clients |-> << >>]
  /\ outbox = [c \in Clients |-> << >>]
  /\ inbox = [c \in Clients |-> << >>]
  /\ completedEmits = pomodoroCount
  /\ appPomodoroCount = pomodoroCount
  /\ burst = [issuers |-> {}, ticked |-> FALSE, resetPartial |-> FALSE]
  /\ nActions = 0
  /\ nTicks = 0

CountdownNext ==
  \/ \E c \in Clients : Tick(c)
  \/ \E c \in Clients : AutoAdvance(c)

\* setInterval and setTimeout callbacks run once they are due
SpecCountdown ==
  /\ CountdownInit
  /\ [][CountdownNext]_vars
  /\ \A c \in Clients : WF_vars(Tick(c)) /\ WF_vars(AutoAdvance(c))

\* --------------------------------------------------------- App: invitations
\*
\* The invitation pop-up, the match list and the Profile page are shown in
\* different views (currentView); the user may switch view between any two
\* clicks, so the view does not restrict the order of the handlers.

\* session_id the server gives to the session of room room_id
SessionOf(room_id) == 100 + room_id

\* PomodoroTimer state and the timer channel, which App's handlers leave alone
pomodoroVars == << timeRemaining, isRunning, mode, pomodoroCount,
                   autoStartBreaks, customDurations, selectedPreset,
                   autoTimers, outbox, inbox, completedEmits, burst,
                   nActions, nTicks >>

\* an incoming invite timer effect that closes the pop-up a second early
IncomingTimerEffect_Early(invite, timer) ==
  IF invite = NoUser THEN << NoUser, INVITE_SECONDS >>
  ELSE IF timer <= 1 THEN << NoUser, INVITE_SECONDS >>
  ELSE << invite, timer >>

\* incoming invite timer effect, after a render with the given state: the
\* << incomingInvite, inviteTimer >> it settles on
IncomingTimerEffect(invite, timer) ==
  IF invite = NoUser THEN << NoUser, INVITE_SECONDS >>
  ELSE IF timer <= 0 THEN << NoUser, INVITE_SECONDS >>
  ELSE << invite, timer >>

\* an outgoing invite timer effect that starts the timer again at 0
OutgoingTimerEffect_Restarts(invite, timer) ==
  IF invite = NoUser THEN << NoUser, INVITE_SECONDS, FALSE >>
  ELSE IF timer <= 0 THEN << invite, INVITE_SECONDS, FALSE >>
  ELSE << invite, timer, FALSE >>

\* outgoing invite timer effect: the << outgoingInvite, outgoingInviteTimer,
\* expired >> it settles on
OutgoingTimerEffect(invite, timer) ==
  IF invite = NoUser THEN << NoUser, INVITE_SECONDS, FALSE >>
  ELSE IF timer <= 0 THEN << NoUser, INVITE_SECONDS, TRUE >>
  ELSE << invite, timer, FALSE >>

\* handleInviteReceived: the invite_received listener
handleInviteReceived(c) ==
  /\ sockIn[c] # << >>
  /\ Head(sockIn[c]).type = "invite_received"
  /\ LET data == Head(sockIn[c]).data
     IN  IF data.inviter # NoUser
           THEN /\ incomingInvite' = [incomingInvite EXCEPT ![c] = data.inviter]
                /\ inviteTimer' = [inviteTimer EXCEPT ![c] = INVITE_SECONDS]
                /\ resolved' = [resolved EXCEPT ![c] = 0]
           ELSE UNCHANGED << incomingInvite, inviteTimer, resolved >>
  /\ sockIn' = [sockIn EXCEPT ![c] = Tail(@)]
  /\ UNCHANGED << cleared, outgoingInvite, outgoingInviteTimer, message, profileMessage,
                  profileClears, matchResults, inviteCalls, acceptWaits,
                  pendingInvite, nextRoom, nInvites, nAccepts,
                  sessionRoom, sessionId, messages, sockOut, nextMessageId,
                  now, nSends, timerVars,
                  sessionVars >>

\* the timeout of the incoming invite timer effect fires (one second passed);
\* at 0 the effect of the next render closes the pop-up (local expiry)
inviteTimerTick(c) ==
  /\ incomingInvite[c] # NoUser
  /\ LET r == IncomingTimerEffect(incomingInvite[c], inviteTimer[c] - 1)
     IN  /\ incomingInvite' = [incomingInvite EXCEPT ![c] = r[1]]
         /\ inviteTimer' = [inviteTimer EXCEPT ![c] = r[2]]
         /\ resolved' = [resolved EXCEPT ![c] =
                           IF r[1] = NoUser THEN @ + 1 ELSE @]
  /\ UNCHANGED << cleared, outgoingInvite, outgoingInviteTimer, message, profileMessage,
                  profileClears, matchResults, inviteCalls, acceptWaits,
                  pendingInvite, nextRoom, nInvites, nAccepts, chatVars, timerVars,
                  sessionVars >>

\* the timeout of the outgoing invite timer effect fires; at 0 the effect of
\* the next render clears the invitation
outgoingInviteTimerTick(c) ==
  /\ outgoingInvite[c] # NoUser
  /\ LET r == OutgoingTimerEffect(outgoingInvite[c], outgoingInviteTimer[c] - 1)
     IN  /\ outgoingInvite' = [outgoingInvite EXCEPT ![c] = r[1]]
         /\ outgoingInviteTimer' = [outgoingInviteTimer EXCEPT ![c] = r[2]]
         /\ message' = [message EXCEPT ![c] = IF r[3] THEN "expired" ELSE @]
         /\ cleared' = [cleared EXCEPT ![c] = IF r[3] THEN "expired" ELSE @]
  /\ UNCHANGED << incomingInvite, inviteTimer, profileMessage, profileClears,
                  matchResults, inviteCalls, acceptWaits, pendingInvite, nextRoom,
                  resolved, nInvites, nAccepts, chatVars, timerVars,
                  sessionVars >>

\* handleSendInvite: "Check if there's already a pending invite"
PendingInviteGuard(c) == outgoingInvite[c] # NoUser

\* handleSendInvite(inviteeUserId), up to the request: a click on an enabled
\* "Invite to Study" button of the match list (the socket is registered)
handleSendInvite(c, u) ==
  /\ nInvites < MaxInvites
  /\ sessionRoom[c] = NoRoom
  /\ u \in matchResults[c]
  /\ outgoingInvite[c] = NoUser          \* disabled={outgoingInvite !== null}
  /\ nInvites' = nInvites + 1
  /\ IF PendingInviteGuard(c)
       THEN /\ message' = [message EXCEPT ![c] = "pending"]
            /\ UNCHANGED inviteCalls
       ELSE /\ message' = [message EXCEPT ![c] = "sending"]
            /\ inviteCalls' =
                 [inviteCalls EXCEPT ![c] =
                    Append(@, [api |-> "invite", invitee |-> u,
                               pc |-> "posted"])]
  /\ UNCHANGED << cleared, incomingInvite, inviteTimer, outgoingInvite,
                  outgoingInviteTimer, profileMessage, profileClears,
                  matchResults, acceptWaits, pendingInvite, nextRoom, resolved,
                  nAccepts, chatVars, timerVars,
                  sessionVars >>

\* handleSendInvite, after the await: the response of POST /api/match/invite
handleSendInviteReturn(c) ==
  /\ inviteCalls[c] # << >>
  /\ Head(inviteCalls[c]).api = "invite"
  /\ Head(inviteCalls[c]).pc # "posted"
  /\ LET call == Head(inviteCalls[c])
     IN  IF call.pc = "ok"
           THEN /\ outgoingInvite' = [outgoingInvite EXCEPT ![c] = call.invitee]
                /\ outgoingInviteTimer' =
                     [outgoingInviteTimer EXCEPT ![c] = INVITE_SECONDS]
                /\ message' = [message EXCEPT ![c] = "sent"]
           ELSE /\ message' = [message EXCEPT ![c] = "error"]
                /\ UNCHANGED << outgoingInvite, outgoingInviteTimer >>
  /\ inviteCalls' = [inviteCalls EXCEPT ![c] = Tail(@)]
  /\ UNCHANGED << cleared, incomingInvite, inviteTimer, profileMessage, profileClears,
                  matchResults, acceptWaits, pendingInvite, nextRoom, resolved,
                  nInvites, nAccepts, chatVars, timerVars,
                  sessionVars >>

\* Profile.handleInviteFriend(friendId), up to the request: a click on the
\* "Invite" button of an online friend
handleInviteFriend(c, u) ==
  /\ nInvites < MaxInvites
  /\ u \in Friends[c]
  /\ nInvites' = nInvites + 1
  /\ inviteCalls' =
       [inviteCalls EXCEPT ![c] =
          Append(@, [api |-> "invite-friend", invitee |-> u, pc |-> "posted"])]
  /\ UNCHANGED << cleared, incomingInvite, inviteTimer, outgoingInvite,
                  outgoingInviteTimer, message, profileMessage, profileClears,
                  matchResults, acceptWaits, pendingInvite, nextRoom, resolved,
                  nAccepts, chatVars, timerVars,
                  sessionVars >>

\* Profile.handleInviteFriend, after the await
handleInviteFriendReturn(c) ==
  /\ inviteCalls[c] # << >>
  /\ Head(inviteCalls[c]).api = "invite-friend"
  /\ Head(inviteCalls[c]).pc # "posted"
  /\ IF Head(inviteCalls[c]).pc = "ok"
       THEN /\ profileMessage' = [profileMessage EXCEPT ![c] = "sent"]
            /\ profileClears' = [profileClears EXCEPT ![c] = @ + 1]
       ELSE /\ profileMessage' = [profileMessage EXCEPT ![c] = "error"]
            /\ UNCHANGED profileClears
  /\ inviteCalls' = [inviteCalls EXCEPT ![c] = Tail(@)]
  /\ UNCHANGED << cleared, incomingInvite, inviteTimer, outgoingInvite,
                  outgoingInviteTimer, message, matchResults, acceptWaits,
                  pendingInvite, nextRoom, resolved, nInvites, nAccepts, chatVars,
                  timerVars,
                  sessionVars >>

\* Profile: setTimeout(() => setMessage(''), 3000) fires
profileMessageClear(c) ==
  /\ profileClears[c] > 0
  /\ profileClears' = [profileClears EXCEPT ![c] = @ - 1]
  /\ profileMessage' = [profileMessage EXCEPT ![c] = ""]
  /\ UNCHANGED << cleared, incomingInvite, inviteTimer, outgoingInvite,
                  outgoingInviteTimer, message, matchResults, inviteCalls,
                  acceptWaits, pendingInvite, nextRoom, resolved, nInvites, nAccepts,
                  chatVars, timerVars,
                  sessionVars >>

\* handleAcceptInvite: a click on "Accept" of the invite pop-up (the socket
\* is connected).  It arms the 15 s timeout, the 500 ms check interval and
\* the temporary match_confirmed / error listeners, all of this render
\* (acceptWaits records the sessionRoom they close over), and emits
\* accept_invitation.  incomingInvite stays as it is.
handleAcceptInvite(c) ==
  /\ nAccepts < MaxAccepts
  /\ incomingInvite[c] # NoUser          \* the pop-up is rendered
  /\ nAccepts' = nAccepts + 1
  /\ IF incomingInvite[c] = NoUser
       THEN /\ message' = [message EXCEPT ![c] = "noinvite"]
            /\ UNCHANGED << acceptWaits, sockOut, resolved >>
       ELSE /\ message' = [message EXCEPT ![c] = "accepting"]
            /\ acceptWaits' = [acceptWaits EXCEPT ![c] = Append(@, sessionRoom[c])]
            /\ sockOut' =
                 [sockOut EXCEPT ![c] =
                    Append(@, [type |-> "accept_invitation",
                               inviter_user_id |-> incomingInvite[c]])]
            /\ resolved' = [resolved EXCEPT ![c] = @ + 1]
  /\ UNCHANGED << cleared, incomingInvite, inviteTimer, outgoingInvite,
                  outgoingInviteTimer, profileMessage, profileClears,
                  matchResults, inviteCalls, pendingInvite, nextRoom, nInvites,
                  sessionRoom, sessionId, messages, sockIn, nextMessageId,
                  now, nSends, timerVars,
                  sessionVars >>

\* The wait of a handleAcceptInvite ends without an answer.  If the render
\* of the call had a sessionRoom, its 500 ms check interval removes the
\* call's timeout and listeners; otherwise its 15 s timeout fires: no
\* match_confirmed came, the pop-up is closed.  Timeouts fire in the order
\* in which they were set.
acceptWaitEnds(c) ==
  /\ \E i \in 1..Len(acceptWaits[c]) :
        /\ \A j \in 1..(i - 1) : acceptWaits[c][j] # acceptWaits[c][i]
        /\ IF acceptWaits[c][i] = NoRoom
             THEN /\ message' = [message EXCEPT ![c] = "noresponse"]
                  /\ incomingInvite' = [incomingInvite EXCEPT ![c] = NoUser]
                  /\ inviteTimer' = [inviteTimer EXCEPT ![c] = INVITE_SECONDS]
             ELSE UNCHANGED << message, incomingInvite, inviteTimer >>
        /\ acceptWaits' =
             [acceptWaits EXCEPT ![c] =
                SubSeq(@, 1, i - 1) \o SubSeq(@, i + 1, Len(@))]
  /\ UNCHANGED << cleared, outgoingInvite, outgoingInviteTimer, profileMessage,
                  profileClears, matchResults, inviteCalls, pendingInvite,
                  nextRoom, resolved, nInvites, nAccepts, chatVars, timerVars,
                  sessionVars >>

\* handleDeclineInvite: a click on "Decline" of the invite pop-up
handleDeclineInvite(c) ==
  /\ incomingInvite[c] # NoUser          \* the pop-up is rendered
  /\ sockOut' =
       [sockOut EXCEPT ![c] =
          Append(@, [type |-> "decline_invitation",
                     inviter_user_id |-> incomingInvite[c]])]
  /\ incomingInvite' = [incomingInvite EXCEPT ![c] = NoUser]
  /\ inviteTimer' = [inviteTimer EXCEPT ![c] = INVITE_SECONDS]
  /\ resolved' = [resolved EXCEPT ![c] = @ + 1]
  /\ UNCHANGED << cleared, outgoingInvite, outgoingInviteTimer, message, profileMessage,
                  profileClears, matchResults, inviteCalls, acceptWaits,
                  pendingInvite, nextRoom, nInvites, nAccepts,
                  sessionRoom, sessionId, messages, sockIn, nextMessageId,
                  now, nSends, timerVars,
                  sessionVars >>

\* a handleMatchConfirmed that takes the session id for the room
MatchConfirmedSession_Swapped(data) ==
  [ sessionRoom |-> data.session_id, sessionId |-> data.room_id,
    join_room |-> [type |-> "join_room", room_id |-> data.session_id] ]

\* handleMatchConfirmed: the session it enters and the join_room it emits
MatchConfirmedSession(data) ==
  [ sessionRoom |-> data.room_id, sessionId |-> data.session_id,
    join_room |-> [type |-> "join_room", room_id |-> data.room_id] ]

\* a check that lets every event pass
ValidMatch_Any(data) == TRUE

\* handleMatchConfirmed: the event carries a room_id
ValidMatch(data) == data.room_id # NoRoom

\* the sessionRoom that handleMatchConfirmed reads: the listeners effect runs
\* once, on mount, and its handlers keep the state of that render
MountSessionRoom == NoRoom

\* The match_confirmed listeners: handleMatchConfirmed of the mount effect
\* (its sessionRoom is the one of the first render, null, so that its
\* duplicate check never holds for a room_id), then the matchConfirmedHandler
\* of every waiting handleAcceptInvite, which removes that call's timeout and
\* listeners.
handleMatchConfirmed(c) ==
  /\ sockIn[c] # << >>
  /\ Head(sockIn[c]).type = "match_confirmed"
  /\ LET data == Head(sockIn[c]).data
         s == MatchConfirmedSession(data)
     IN  IF ~ValidMatch(data)
           THEN /\ message' = [message EXCEPT ![c] = "invalid"]
                /\ UNCHANGED << sessionRoom, sessionId, appPomodoroCount,
                                incomingInvite, outgoingInvite, inviteTimer,
                                outgoingInviteTimer, matchResults, messages,
                                sockOut, cleared >>
           ELSE IF MountSessionRoom = data.room_id
             THEN UNCHANGED << sessionRoom, sessionId, appPomodoroCount,
                               incomingInvite, outgoingInvite, inviteTimer,
                               outgoingInviteTimer, matchResults, messages,
                               sockOut, cleared, message >>
           ELSE /\ sessionRoom' = [sessionRoom EXCEPT ![c] = s.sessionRoom]
                /\ sessionId' = [sessionId EXCEPT ![c] = s.sessionId]
                /\ appPomodoroCount' = [appPomodoroCount EXCEPT ![c] = 0]
                /\ incomingInvite' = [incomingInvite EXCEPT ![c] = NoUser]
                /\ outgoingInvite' = [outgoingInvite EXCEPT ![c] = NoUser]
                /\ inviteTimer' = [inviteTimer EXCEPT ![c] = INVITE_SECONDS]
                /\ outgoingInviteTimer' =
                     [outgoingInviteTimer EXCEPT ![c] = INVITE_SECONDS]
                /\ matchResults' = [matchResults EXCEPT ![c] = {}]
                /\ messages' = [messages EXCEPT ![c] = << >>]
                /\ sockOut' = [sockOut EXCEPT ![c] = Append(@, s.join_room)]
                /\ message' = [message EXCEPT ![c] = "started"]
                /\ cleared' = [cleared EXCEPT ![c] =
                                 IF outgoingInvite[c] # NoUser THEN "matched"
                                                               ELSE @]
  /\ acceptWaits' = [acceptWaits EXCEPT ![c] = << >>]
  /\ sockIn' = [sockIn EXCEPT ![c] = Tail(@)]
  /\ UNCHANGED << profileMessage, profileClears, inviteCalls, pendingInvite,
                  nextRoom, resolved, nInvites, nAccepts, nextMessageId, now,
                  nSends, pomodoroVars,
                  sessionVars >>

\* a listener that reports the decline and keeps the invitation
invite_declined_Keeps(c) ==
  /\ sockIn[c] # << >>
  /\ Head(sockIn[c]).type = "invite_declined"
  /\ message' = [message EXCEPT ![c] = "declined"]
  /\ sockIn' = [sockIn EXCEPT ![c] = Tail(@)]
  /\ UNCHANGED << cleared, incomingInvite, inviteTimer, outgoingInvite,
                  outgoingInviteTimer, profileMessage, profileClears,
                  matchResults, inviteCalls, acceptWaits, pendingInvite, nextRoom,
                  resolved, nInvites, nAccepts, sessionRoom, sessionId,
                  messages, sockOut, nextMessageId, now, nSends, timerVars,
                  sessionVars >>

\* the invite_declined listener
invite_declined(c) ==
  /\ sockIn[c] # << >>
  /\ Head(sockIn[c]).type = "invite_declined"
  /\ cleared' = [cleared EXCEPT ![c] =
                   IF outgoingInvite[c] # NoUser THEN "declined" ELSE @]
  /\ outgoingInvite' = [outgoingInvite EXCEPT ![c] = NoUser]
  /\ outgoingInviteTimer' = [outgoingInviteTimer EXCEPT ![c] = INVITE_SECONDS]
  /\ message' = [message EXCEPT ![c] = "declined"]
  /\ sockIn' = [sockIn EXCEPT ![c] = Tail(@)]
  /\ UNCHANGED << incomingInvite, inviteTimer, profileMessage, profileClears,
                  matchResults, inviteCalls, acceptWaits, pendingInvite, nextRoom,
                  resolved, nInvites, nAccepts, sessionRoom, sessionId,
                  messages, sockOut, nextMessageId, now, nSends, timerVars,
                  sessionVars >>

\* The error listeners: the one of the mount effect, then the errorHandler
\* of every waiting handleAcceptInvite, which closes the pop-up and removes
\* that call's timeout and listeners.
socket_error(c) ==
  /\ sockIn[c] # << >>
  /\ Head(sockIn[c]).type = "error"
  /\ message' = [message EXCEPT ![c] = "error"]
  /\ IF acceptWaits[c] # << >>
       THEN /\ incomingInvite' = [incomingInvite EXCEPT ![c] = NoUser]
            /\ inviteTimer' = [inviteTimer EXCEPT ![c] = INVITE_SECONDS]
       ELSE UNCHANGED << incomingInvite, inviteTimer >>
  /\ acceptWaits' = [acceptWaits EXCEPT ![c] = << >>]
  /\ sockIn' = [sockIn EXCEPT ![c] = Tail(@)]
  /\ UNCHANGED << cleared, outgoingInvite, outgoingInviteTimer, profileMessage,
                  profileClears, matchResults, inviteCalls, pendingInvite, nextRoom,
                  resolved, nInvites, nAccepts, sessionRoom, sessionId,
                  messages, sockOut, nextMessageId, now, nSends, timerVars,
                  sessionVars >>

\* ------------------------------------- server: the Invitation Coordinator
\* From the specification (4.2, 4.3, 6); pendingInvite[i] is the invitee of the
\* Pending invitation of inviter i.

\* index of the oldest request of c the server has not answered (0: none)
FirstPosted(c) ==
  IF \E i \in 1..Len(inviteCalls[c]) : inviteCalls[c][i].pc = "posted"
    THEN CHOOSE i \in 1..Len(inviteCalls[c]) :
           /\ inviteCalls[c][i].pc = "posted"
           /\ \A j \in 1..(i - 1) : inviteCalls[c][j].pc # "posted"
    ELSE 0

\* issue: AlreadyPending if the inviter has a Pending invitation; otherwise
\* the invitation is Pending and the invitee gets invite_received
IssueInvitation(c) ==
  /\ FirstPosted(c) # 0
  /\ LET i == FirstPosted(c)
         call == inviteCalls[c][i]
     IN  IF pendingInvite[c] # NoUser
           THEN /\ inviteCalls' = [inviteCalls EXCEPT ![c][i].pc = "err"]
                /\ UNCHANGED << pendingInvite, sockIn >>
           ELSE /\ inviteCalls' = [inviteCalls EXCEPT ![c][i].pc = "ok"]
                /\ pendingInvite' = [pendingInvite EXCEPT ![c] = call.invitee]
                /\ sockIn' =
                     [d \in Clients |->
                        IF d = call.invitee
                          THEN Append(sockIn[d], [type |-> "invite_received",
                                                  data |-> [inviter |-> c]])
                          ELSE sockIn[d]]
  /\ UNCHANGED << cleared, incomingInvite, inviteTimer, outgoingInvite,
                  outgoingInviteTimer, message, profileMessage, profileClears,
                  matchResults, acceptWaits, nextRoom, resolved, nInvites,
                  nAccepts, sessionRoom, sessionId, messages, sockOut,
                  nextMessageId, now, nSends, timerVars,
                  sessionVars >>

\* accept: NotFound if the invitation is not Pending; otherwise it is
\* Accepted, the session is created and both parties get match_confirmed
\* with the same room and session identifiers
AcceptInvitation(c) ==
  /\ sockOut[c] # << >>
  /\ Head(sockOut[c]).type = "accept_invitation"
  /\ LET i == Head(sockOut[c]).inviter_user_id
         confirmed == [type |-> "match_confirmed",
                       data |-> [room_id |-> nextRoom,
                                 session_id |-> SessionOf(nextRoom)]]
     IN  IF pendingInvite[i] = c
           THEN /\ pendingInvite' = [pendingInvite EXCEPT ![i] = NoUser]
                /\ nextRoom' = nextRoom + 1
                /\ sockIn' = [d \in Clients |->
                                IF d \in {i, c} THEN Append(sockIn[d], confirmed)
                                                ELSE sockIn[d]]
                /\ joined' = [d \in Clients |->
                                IF d \in {i, c} THEN nextRoom ELSE joined[d]]
           ELSE /\ sockIn' = [sockIn EXCEPT ![c] =
                                Append(@, [type |-> "error",
                                           data |-> [kind |-> "NotFound"]])]
                /\ UNCHANGED << pendingInvite, nextRoom, joined >>
  /\ sockOut' = [sockOut EXCEPT ![c] = Tail(@)]
  /\ UNCHANGED << cleared, incomingInvite, inviteTimer, outgoingInvite,
                  outgoingInviteTimer, message, profileMessage, profileClears,
                  matchResults, inviteCalls, acceptWaits, resolved, nInvites,
                  nAccepts, sessionRoom, sessionId, messages, nextMessageId,
                  now, nSends, timerVars, leaveVars, partnerVars, connVars,
                  nDeliveries, currentView >>

\* decline: a Pending invitation becomes Declined and the inviter gets
\* invite_declined; a decline of anything else is dropped
DeclineInvitation(c) ==
  /\ sockOut[c] # << >>
  /\ Head(sockOut[c]).type = "decline_invitation"
  /\ LET i == Head(sockOut[c]).inviter_user_id
     IN  IF pendingInvite[i] = c
           THEN /\ pendingInvite' = [pendingInvite EXCEPT ![i] = NoUser]
                /\ sockIn' = [sockIn EXCEPT ![i] =
                                Append(@, [type |-> "invite_declined",
                                           data |-> [invitee |-> c]])]
           ELSE UNCHANGED << pendingInvite, sockIn >>
  /\ sockOut' = [sockOut EXCEPT ![c] = Tail(@)]
  /\ UNCHANGED << cleared, incomingInvite, inviteTimer, outgoingInvite,
                  outgoingInviteTimer, message, profileMessage, profileClears,
                  matchResults, inviteCalls, acceptWaits, nextRoom, resolved,
                  nInvites, nAccepts, sessionRoom, sessionId, messages,
                  nextMessageId, now, nSends, timerVars,
                  sessionVars >>

\* timeout: a Pending invitation becomes Expired after 15 s
ExpireInvitation(i) ==
  /\ pendingInvite[i] # NoUser
  /\ pendingInvite' = [pendingInvite EXCEPT ![i] = NoUser]
  /\ UNCHANGED << cleared, incomingInvite, inviteTimer, outgoingInvite,
                  outgoingInviteTimer, message, profileMessage, profileClears,
                  matchResults, inviteCalls, acceptWaits, nextRoom, resolved,
                  nInvites, nAccepts, chatVars, timerVars,
                  sessionVars >>

\* join: the client is (already) a member of the room
JoinRoom(c) ==
  /\ sockOut[c] # << >>
  /\ Head(sockOut[c]).type = "join_room"
  /\ joined' = [joined EXCEPT ![c] = Head(sockOut[c]).room_id]
  /\ sockOut' = [sockOut EXCEPT ![c] = Tail(@)]
  /\ UNCHANGED << sessionRoom, sessionId, messages, sockIn, nextMessageId,
                  now, nSends, inviteVars, timerVars, leaveVars, partnerVars,
                  connVars, nDeliveries, currentView >>

\* both users logged in, connected and registered, not in a session; the
\* users of Inviters have run a match search and have friends online
InviteInit ==
  /\ TimerInit
  /\ SessionIdle
  /\ token = [c \in Clients |-> "valid"]
  /\ joined = [c \in Clients |-> NoRoom]
  /\ sessionPartner = [c \in Clients |-> NoUser]
  /\ sessionRoom = [c \in Clients |-> NoRoom]
  /\ sessionId = [c \in Clients |-> NoRoom]
  /\ messages = [c \in Clients |-> << >>]
  /\ sockOut = [c \in Clients |-> << >>]
  /\ sockIn = [c \in Clients |-> << >>]
  /\ nextMessageId = 1
  /\ now = 0
  /\ nSends = 0
  /\ incomingInvite = [c \in Clients |-> NoUser]
  /\ inviteTimer = [c \in Clients |-> INVITE_SECONDS]
  /\ outgoingInvite = [c \in Clients |-> NoUser]
  /\ outgoingInviteTimer = [c \in Clients |-> INVITE_SECONDS]
  /\ message = [c \in Clients |-> ""]
  /\ profileMessage = [c \in Clients |-> ""]
  /\ profileClears = [c \in Clients |-> 0]
  /\ matchResults = Friends
  /\ inviteCalls = [c \in Clients |-> << >>]
  /\ acceptWaits = [c \in Clients |-> << >>]
  /\ pendingInvite = [c \in Clients |-> NoUser]
  /\ nextRoom = 1
  /\ resolved = [c \in Clients |-> 0]
  /\ cleared = [c \in Clients |-> ""]
  /\ nInvites = 0
  /\ nAccepts = 0

InviteNext ==
  \/ \E c \in Clients : \E u \in Clients : handleSendInvite(c, u)
  \/ \E c \in Clients : handleSendInviteReturn(c)
  \/ \E c \in Clients : \E u \in Clients : handleInviteFriend(c, u)
  \/ \E c \in Clients : handleInviteFriendReturn(c)
  \/ \E c \in Clients : profileMessageClear(c)
  \/ \E c \in Clients : handleInviteReceived(c)
  \/ \E c \in Clients : inviteTimerTick(c)
  \/ \E c \in Clients : outgoingInviteTimerTick(c)
  \/ \E c \in Clients : handleAcceptInvite(c)
  \/ \E c \in Clients : acceptWaitEnds(c)
  \/ \E c \in Clients : handleDeclineInvite(c)
  \/ \E c \in Clients : handleMatchConfirmed(c)
  \/ \E c \in Clients : invite_declined(c)
  \/ \E c \in Clients : socket_error(c)
  \/ \E c \in Clients : IssueInvitation(c)
  \/ \E c \in Clients : AcceptInvitation(c)
  \/ \E c \in Clients : DeclineInvitation(c)
  \/ \E c \in Clients : ExpireInvitation(c)
  \/ \E c \in Clients : JoinRoom(c)

SpecInvite == InviteInit /\ [][InviteNext]_vars

\* Busy users: as InviteInit, but each user who is not in Inviters is
\* already in a session (room Room1, with a partner outside Clients).
AcceptInit ==
  /\ TimerInit
  /\ SessionIdle
  /\ token = [c \in Clients |-> "valid"]
  /\ joined = [c \in Clients |-> IF c \in Inviters THEN NoRoom ELSE Room1]
  /\ sessionPartner = [c \in Clients |->
                         IF c \in Inviters THEN NoUser ELSE Outsider]
  /\ sessionRoom = [c \in Clients |-> IF c \in Inviters THEN NoRoom ELSE Room1]
  /\ sessionId = [c \in Clients |->
                    IF c \in Inviters THEN NoRoom ELSE SessionOf(Room1)]
  /\ messages = [c \in Clients |-> << >>]
  /\ sockOut = [c \in Clients |-> << >>]
  /\ sockIn = [c \in Clients |-> << >>]
  /\ nextMessageId = 1
  /\ now = 0
  /\ nSends = 0
  /\ incomingInvite = [c \in Clients |-> NoUser]
  /\ inviteTimer = [c \in Clients |-> INVITE_SECONDS]
  /\ outgoingInvite = [c \in Clients |-> NoUser]
  /\ outgoingInviteTimer = [c \in Clients |-> INVITE_SECONDS]
  /\ message = [c \in Clients |-> ""]
  /\ profileMessage = [c \in Clients |-> ""]
  /\ profileClears = [c \in Clients |-> 0]
  /\ matchResults = Friends
  /\ inviteCalls = [c \in Clients |-> << >>]
  /\ acceptWaits = [c \in Clients |-> << >>]
  /\ pendingInvite = [c \in Clients |-> NoUser]
  /\ nextRoom = Room1 + 1
  /\ resolved = [c \in Clients |-> 0]
  /\ cleared = [c \in Clients |-> ""]
  /\ nInvites = 0
  /\ nAccepts = 0

\* invitations sent to users who are in a session
SpecAccept == AcceptInit /\ [][InviteNext]_vars

\* the timeouts of the invite timer effects fire once their second is over
SpecInviteFair ==
  /\ SpecInvite
  /\ \A c \in Clients : WF_vars(outgoingInviteTimerTick(c))
  /\ \A c \in Clients : WF_vars(inviteTimerTick(c))

\* Two candidates in the match list: the inviters also find a user who is
\* not one of Clients, whose client is not observed.
DeclineInit ==
  /\ TimerInit
  /\ SessionIdle
  /\ token = [c \in Clients |-> "valid"]
  /\ joined = [c \in Clients |-> NoRoom]
  /\ sessionPartner = [c \in Clients |-> NoUser]
  /\ sessionRoom = [c \in Clients |-> NoRoom]
  /\ sessionId = [c \in Clients |-> NoRoom]
  /\ messages = [c \in Clients |-> << >>]
  /\ sockOut = [c \in Clients |-> << >>]
  /\ sockIn = [c \in Clients |-> << >>]
  /\ nextMessageId = 1
  /\ now = 0
  /\ nSends = 0
  /\ incomingInvite = [c \in Clients |-> NoUser]
  /\ inviteTimer = [c \in Clients |-> INVITE_SECONDS]
  /\ outgoingInvite = [c \in Clients |-> NoUser]
  /\ outgoingInviteTimer = [c \in Clients |-> INVITE_SECONDS]
  /\ message = [c \in Clients |-> ""]
  /\ profileMessage = [c \in Clients |-> ""]
  /\ profileClears = [c \in Clients |-> 0]
  /\ matchResults = [c \in Clients |->
                       IF c \in Inviters THEN Friends[c] \cup {Outsider}
                                         ELSE {}]
  /\ inviteCalls = [c \in Clients |-> << >>]
  /\ acceptWaits = [c \in Clients |-> << >>]
  /\ pendingInvite = [c \in Clients |-> NoUser]
  /\ nextRoom = 1
  /\ resolved = [c \in Clients |-> 0]
  /\ cleared = [c \in Clients |-> ""]
  /\ nInvites = 0
  /\ nAccepts = 0

DeclineNext ==
  \/ \E c \in Clients : \E u \in Clients \cup {Outsider} :
        handleSendInvite(c, u)
  \/ \E c \in Clients : handleSendInviteReturn(c)
  \/ \E c \in Clients : handleInviteReceived(c)
  \/ \E c \in Clients : inviteTimerTick(c)
  \/ \E c \in Clients : outgoingInviteTimerTick(c)
  \/ \E c \in Clients : handleDeclineInvite(c)
  \/ \E c \in Clients : invite_declined(c)
  \/ \E c \in Clients : IssueInvitation(c)
  \/ \E c \in Clients : DeclineInvitation(c)
  \/ \E c \in Clients : ExpireInvitation(c)

\* invitations sent to one candidate after the other, and declined
SpecDecline == DeclineInit /\ [][DeclineNext]_vars

\* ------------------------------------------------- App: leaving a session

\* endCurrentSession of a render whose sessionId is sid and whose
\* pomodoroCount is count: the POST /api/sessions/end requests it sends
endCurrentSession(sid, count) ==
  IF sid # NoRoom
    THEN << [type |-> "end_session", session_id |-> sid,
             pomodoro_count |-> count] >>
    ELSE << >>

\* pomodoroCount of the render in which sessionId was set: the cleanup of
\* the sessionId effect calls the endCurrentSession of that render
CleanupPomodoroCount == 0

IsSocketEmit(x) == x.type = "leave_room"
IsEndRequest(x) == x.type = "end_session"

\* the end request goes out first, leave_room after it
LeaveSends_EndFirst(c) ==
  endCurrentSession(sessionId[c], appPomodoroCount[c])
    \o (IF connected[c]
          THEN << [type |-> "leave_room", room_id |-> sessionRoom[c]] >>
          ELSE << >>)

\* what handleLeaveSession sends before its await, in the order of its
\* statements: the leave_room emit, then the request of endCurrentSession
LeaveSends(c) ==
  (IF connected[c]
     THEN << [type |-> "leave_room", room_id |-> sessionRoom[c]] >>
     ELSE << >>)
    \o endCurrentSession(sessionId[c], appPomodoroCount[c])

\* handleLeaveSession, up to its await: a click on "Leave Session" emits
\* leave_room and sends the end request of endCurrentSession
handleLeaveSession(c) ==
  /\ nLeaves < MaxLeaves
  /\ sessionRoom[c] # NoRoom             \* the session UI is rendered
  /\ nLeaves' = nLeaves + 1
  /\ sockOut' =
       [sockOut EXCEPT ![c] = @ \o SelectSeq(LeaveSends(c), IsSocketEmit)]
  /\ endRequests' =
       [endRequests EXCEPT ![c] = @ \o SelectSeq(LeaveSends(c), IsEndRequest)]
  /\ leaveCalls' =
       [leaveCalls EXCEPT ![c] =
          Append(@, [currentSessionId |-> sessionId[c],
                     currentRoomId |-> sessionRoom[c]])]
  /\ UNCHANGED << sessionRoom, sessionId, messages, sockIn, nextMessageId,
                  now, nSends, sessionPartner, showRatingModal, timerVars,
                  inviteVars, partnerVars, connVars, joined,
                  nDeliveries, currentView >>

\* handleLeaveSession, after its await: the session state is cleared and the
\* rating modal opens.  The render that follows drops the session UI, and the
\* cleanup of the sessionId effect calls endCurrentSession of the old render.
handleLeaveSessionReturn(c) ==
  /\ leaveCalls[c] # << >>
  /\ LET call == Head(leaveCalls[c])
     IN  showRatingModal' =
           [showRatingModal EXCEPT ![c] =
              IF call.currentSessionId # NoRoom \/ call.currentRoomId # NoRoom
                THEN TRUE ELSE @]
  /\ leaveCalls' = [leaveCalls EXCEPT ![c] = Tail(@)]
  /\ sessionRoom' = [sessionRoom EXCEPT ![c] = NoRoom]
  /\ sessionId' = [sessionId EXCEPT ![c] = NoRoom]
  /\ appPomodoroCount' = [appPomodoroCount EXCEPT ![c] = 0]
  /\ messages' = [messages EXCEPT ![c] = << >>]
  /\ sessionPartner' = [sessionPartner EXCEPT ![c] = NoUser]
  /\ message' = [message EXCEPT ![c] = "left"]
  /\ endRequests' =
       [endRequests EXCEPT ![c] =
          @ \o endCurrentSession(sessionId[c], CleanupPomodoroCount)]
  /\ UNCHANGED << sockOut, sockIn, nextMessageId, now, nSends, pomodoroVars,
                  cleared, incomingInvite, inviteTimer, outgoingInvite,
                  outgoingInviteTimer, profileMessage, profileClears,
                  matchResults, inviteCalls, acceptWaits, pendingInvite,
                  nextRoom, resolved, nInvites, nAccepts, nLeaves,
                  partnerVars, connVars, joined, nDeliveries, currentView >>

\* the events for which App or PomodoroTimer registers a listener
ListenedEvents ==
  { "error", "invite_received", "invite_declined", "match_confirmed",
    "receive_message", "timer_update", "registration_confirmed",
    "registration_failed", "friend_request_accepted",
    "friend_request_received", "google_meet_requested",
    "google_meet_accepted", "test_event" }

\* an event for which the client has no listener is dropped by the socket
unlistenedEvent(c) ==
  /\ sockIn[c] # << >>
  /\ Head(sockIn[c]).type \notin ListenedEvents
  /\ sockIn' = [sockIn EXCEPT ![c] = Tail(@)]
  /\ UNCHANGED << sessionRoom, sessionId, messages, sockOut, nextMessageId,
                  now, nSends, timerVars, inviteVars, sessionVars >>

\* Session Manager, from the specification (4.3, 8): leave removes the
\* participant from the room and notifies the remaining participant.
LeaveRoom(c) ==
  /\ sockOut[c] # << >>
  /\ Head(sockOut[c]).type = "leave_room"
  /\ LET room == Head(sockOut[c]).room_id
     IN  /\ joined' = [joined EXCEPT ![c] = IF @ = room THEN NoRoom ELSE @]
         /\ sockIn' =
              [d \in Clients |->
                 IF d # c /\ joined[d] = room /\ joined[c] = room
                   THEN Append(sockIn[d], [type |-> "partner_left",
                                           data |-> [user_id |-> c]])
                   ELSE sockIn[d]]
  /\ sockOut' = [sockOut EXCEPT ![c] = Tail(@)]
  /\ UNCHANGED << sessionRoom, sessionId, messages, nextMessageId, now,
                  nSends, timerVars, inviteVars, leaveVars, partnerVars,
                  connVars, nDeliveries, currentView >>

LeaveNext ==
  \/ \E c \in Clients : handleLeaveSession(c)
  \/ \E c \in Clients : handleLeaveSessionReturn(c)
  \/ \E c \in Clients : LeaveRoom(c)
  \/ \E c \in Clients : unlistenedEvent(c)
  \/ \E c \in Clients : \E typed \in Texts : handleSendMessage(c, typed)
  \/ \E c \in Clients : ChatRelaySend(c)
  \/ \E c \in Clients : receive_message(c)

\* two users in the session of room Room1, chatting and leaving
SpecLeave == ChatInit /\ [][LeaveNext]_vars

\* the same two users leaving late in the session: each has counted some
\* pomodoros, the timers are idle at the start of a focus interval
EndInit ==
  /\ RoomInit
  /\ pomodoroCount \in [Clients -> 0..MaxCount]
  /\ completedEmits = pomodoroCount
  /\ appPomodoroCount = pomodoroCount
  /\ timeRemaining = [c \in Clients |-> DEFAULT_POMODORO_TIME]
  /\ isRunning = [c \in Clients |-> FALSE]
  /\ mode = [c \in Clients |-> "pomodoro"]
  /\ autoStartBreaks = [c \in Clients |-> TRUE]
  /\ customDurations =
       [c \in Clients |-> [pomodoro |-> DEFAULT_POMODORO_TIME,
                           short |-> DEFAULT_SHORT_BREAK_TIME,
                           long |-> DEFAULT_LONG_BREAK_TIME]]
  /\ selectedPreset =
       [c \in Clients |-> [pomodoro |-> 0, short |-> 1, long |-> 1]]
  /\ autoTimers = [c \in Clients |-> << >>]
  /\ outbox = [c \in Clients |-> << >>]
  /\ inbox = [c \in Clients |-> << >>]
  /\ burst = [issuers |-> {}, ticked |-> FALSE, resetPartial |-> FALSE]
  /\ nActions = 0
  /\ nTicks = 0

SpecEnd == EndInit /\ [][LeaveNext]_vars

\* ------------------------------------------- App: the partner of a session

retries == 8       \* fetchSessionPartner: default of its retries parameter

\* the answers of GET /api/sessions/partner: the partner's information, 404
\* while the session is not committed (specification 4.3), another failure
PartnerResponses == { "partner", "404", "error" }

\* a wait of one second whatever the attempt
PartnerDelay_Flat(attempt) == 1000

\* the wait after the 404 of an attempt, in ms
PartnerDelay(attempt) == (attempt + 1) * 1000

\* partnerCalls[c] without its i-th call
PartnerCallEnds(c, i) ==
  [partnerCalls EXCEPT ![c] = SubSeq(@, 1, i - 1) \o SubSeq(@, i + 1, Len(@))]

\* fetchSessionPartner(roomId), up to the first await: attempt 0 sends its
\* request.  requests, last and delay are history: the requests the call has
\* sent, the last answer and the last wait.
fetchSessionPartner(c) ==
  /\ nFetches < MaxFetches
  /\ sessionRoom[c] # NoRoom
  /\ nFetches' = nFetches + 1
  /\ partnerCalls' =
       [partnerCalls EXCEPT ![c] =
          IF token[c] = "none"
            THEN @
            ELSE Append(@, [roomId |-> sessionRoom[c], attempt |-> 0,
                            pc |-> "get", requests |-> 1, last |-> "",
                            delay |-> 0])]
  /\ UNCHANGED << timerVars, chatVars, inviteVars, leaveVars, connVars,
                  joined, nDeliveries, currentView >>

\* the request of the i-th call of c returns r
fetchSessionPartnerResponse(c, i, r) ==
  /\ i \in 1..Len(partnerCalls[c])
  /\ partnerCalls[c][i].pc = "get"
  /\ LET call == partnerCalls[c][i]
     IN  IF r = "partner"
           THEN /\ sessionPartner' =
                     [sessionPartner EXCEPT ![c] =
                        IF \E d \in Clients : d # c /\ joined[d] = call.roomId
                          THEN CHOOSE d \in Clients :
                                 d # c /\ joined[d] = call.roomId
                          ELSE Outsider]
                /\ partnerCalls' = PartnerCallEnds(c, i)
                /\ UNCHANGED message
           ELSE IF r = "404" /\ call.attempt < retries - 1
             THEN /\ partnerCalls' =
                       [partnerCalls EXCEPT ![c][i] =
                          [@ EXCEPT !.pc = "wait", !.last = r,
                                    !.delay = PartnerDelay(call.attempt)]]
                  /\ UNCHANGED << sessionPartner, message >>
             ELSE /\ message' =
                       [message EXCEPT ![c] =
                          IF r # "404" THEN "partnererror" ELSE @]
                  /\ partnerCalls' = PartnerCallEnds(c, i)
                  /\ UNCHANGED sessionPartner
  /\ UNCHANGED << timerVars, chatVars, cleared, incomingInvite, inviteTimer,
                  outgoingInvite, outgoingInviteTimer, profileMessage,
                  profileClears, matchResults, inviteCalls, acceptWaits,
                  pendingInvite, nextRoom, resolved, nInvites, nAccepts,
                  showRatingModal, leaveCalls, endRequests, nLeaves,
                  nFetches, connVars, joined, nDeliveries, currentView >>

\* the wait of the i-th call of c is over: the next attempt sends its request
fetchSessionPartnerRetry(c, i) ==
  /\ i \in 1..Len(partnerCalls[c])
  /\ partnerCalls[c][i].pc = "wait"
  /\ partnerCalls' =
       IF token[c] = "none"
         THEN PartnerCallEnds(c, i)
         ELSE [partnerCalls EXCEPT ![c][i] =
                 [@ EXCEPT !.pc = "get", !.attempt = @ + 1,
                           !.requests = @ + 1]]
  /\ UNCHANGED << timerVars, chatVars, inviteVars, leaveVars, nFetches,
                  connVars, joined, nDeliveries, currentView >>

\* two users in the session of room Room1 whose partner is not loaded yet
PartnerInit ==
  /\ TimerInit
  /\ SessionIdle
  /\ token = [c \in Clients |-> "valid"]
  /\ joined = [c \in Clients |-> Room1]
  /\ sessionPartner = [c \in Clients |-> NoUser]
  /\ sessionRoom = [c \in Clients |-> Room1]
  /\ sessionId = [c \in Clients |-> 1]
  /\ messages = [c \in Clients |-> << >>]
  /\ sockOut = [c \in Clients |-> << >>]
  /\ sockIn = [c \in Clients |-> << >>]
  /\ nextMessageId = 1
  /\ now = 0
  /\ nSends = 0
  /\ incomingInvite = [c \in Clients |-> NoUser]
  /\ inviteTimer = [c \in Clients |-> INVITE_SECONDS]
  /\ outgoingInvite = [c \in Clients |-> NoUser]
  /\ outgoingInviteTimer = [c \in Clients |-> INVITE_SECONDS]
  /\ message = [c \in Clients |-> ""]
  /\ profileMessage = [c \in Clients |-> ""]
  /\ profileClears = [c \in Clients |-> 0]
  /\ matchResults = [c \in Clients |-> {}]
  /\ inviteCalls = [c \in Clients |-> << >>]
  /\ acceptWaits = [c \in Clients |-> << >>]
  /\ pendingInvite = [c \in Clients |-> NoUser]
  /\ nextRoom = Room1 + 1
  /\ resolved = [c \in Clients |-> 0]
  /\ cleared = [c \in Clients |-> ""]
  /\ nInvites = 0
  /\ nAccepts = 0

\* a request of c returns
partnerRequestReturns(c) ==
  \E i \in 1..MaxFetches : \E r \in PartnerResponses :
    fetchSessionPartnerResponse(c, i, r)

\* a wait of c is over
partnerWaitEnds(c) ==
  \E i \in 1..MaxFetches : fetchSessionPartnerRetry(c, i)

PartnerNext ==
  \/ \E c \in Clients : fetchSessionPartner(c)
  \/ \E c \in Clients : partnerRequestReturns(c)
  \/ \E c \in Clients : partnerWaitEnds(c)

\* every request returns, every wait ends
SpecPartner ==
  /\ PartnerInit
  /\ [][PartnerNext]_vars
  /\ \A c \in Clients :
       /\ WF_vars(partnerRequestReturns(c))
       /\ WF_vars(partnerWaitEnds(c))

PartnerLeaveNext ==
  \/ \E c \in Clients : fetchSessionPartner(c)
  \/ \E c \in Clients : partnerRequestReturns(c)
  \/ \E c \in Clients : partnerWaitEnds(c)
  \/ \E c \in Clients : handleLeaveSession(c)
  \/ \E c \in Clients : handleLeaveSessionReturn(c)
  \/ \E c \in Clients : LeaveRoom(c)

\* the partner lookup of a session that its users may leave meanwhile
SpecPartnerLeave == PartnerInit /\ [][PartnerLeaveNext]_vars

\* ------------------------------------------------- App: socket registration

\* localStorage 'token': none stored, one the server accepts, one it rejects
Tokens == { "none", "valid", "invalid" }

\* maxRetries of the call sites, explored up to MaxRetries attempts
RetriesOf(maxRetries) ==
  IF maxRetries < MaxRetries THEN maxRetries ELSE MaxRetries

ConnectRetries == 5     \* handleConnect: registerSocketWithRetry(5, 300)
SearchRetries == 20     \* match search: registerSocketWithRetry(20, 1500)

\* what a registerSocketWithRetry call returned
RegReturn(result) == << [result |-> result] >>

\* a loop that waits for the answer without emitting
RegLoop_Silent(call, conn) ==
  IF call.i >= call.maxRetries
    THEN [calls |-> << >>, emits |-> << >>, returns |-> RegReturn(FALSE)]
    ELSE [calls |-> << [call EXCEPT !.pc = "waiting", !.listeners = 2] >>,
          emits |-> << >>, returns |-> << >>]

\* registerSocketWithRetry from the test of its for loop to the next await:
\* the loop is over (return false), or the attempt emits register_connection
\* and waits for the answer, or the socket is not connected and the pass
\* calls socket.connect() and waits
RegLoop(call, conn) ==
  IF call.i >= call.maxRetries
    THEN [calls |-> << >>, emits |-> << >>, returns |-> RegReturn(FALSE)]
    ELSE IF conn
      THEN [calls |-> << [call EXCEPT !.pc = "waiting", !.listeners = 2] >>,
            emits |-> << [type |-> "register_connection",
                          token |-> call.token] >>,
            returns |-> << >>]
      ELSE [calls |-> << [call EXCEPT !.pc = "reconnecting"] >>,
            emits |-> << >>, returns |-> << >>]

\* a call that emits before it looks for the token
RegStart_EmitsFirst(tok, maxRetries, conn) ==
  RegLoop([maxRetries |-> RetriesOf(maxRetries), i |-> 0, token |-> tok,
           pc |-> "start", listeners |-> 0], TRUE)

\* registerSocketWithRetry(maxRetries, delay) up to its first await
RegStart(tok, maxRetries, conn) ==
  LET call == [maxRetries |-> RetriesOf(maxRetries), i |-> 0, token |-> tok,
               pc |-> "start", listeners |-> 0]
  IN  IF tok = "none"
        THEN [calls |-> << >>, emits |-> << >>, returns |-> RegReturn(FALSE)]
        ELSE IF ~conn
          THEN [calls |-> << [call EXCEPT !.pc = "connecting"] >>,
                emits |-> << >>, returns |-> << >>]
          ELSE RegLoop(call, conn)

\* the socket's 'connect' event resumes the calls that wait for it: the
\* first wait goes on to the loop, the wait of a loop pass to the next pass
RECURSIVE RegOnConnect(_)
RegOnConnect(calls) ==
  IF calls = << >>
    THEN [calls |-> << >>, emits |-> << >>, returns |-> << >>]
    ELSE LET call == Head(calls)
             rest == RegOnConnect(Tail(calls))
             this == IF call.pc = "connecting"
                       THEN RegLoop(call, TRUE)
                       ELSE IF call.pc = "reconnecting"
                         THEN RegLoop([call EXCEPT !.i = @ + 1], TRUE)
                         ELSE [calls |-> << call >>, emits |-> << >>,
                               returns |-> << >>]
         IN  [calls |-> this.calls \o rest.calls,
              emits |-> this.emits \o rest.emits,
              returns |-> this.returns \o rest.returns]

\* the calls that wait for the answer to an attempt
RECURSIVE RegWaiting(_)
RegWaiting(calls) ==
  IF calls = << >> THEN << >>
  ELSE IF Head(calls).pc = "waiting"
    THEN << Head(calls) >> \o RegWaiting(Tail(calls))
    ELSE RegWaiting(Tail(calls))

\* the other calls
RECURSIVE RegNotWaiting(_)
RegNotWaiting(calls) ==
  IF calls = << >> THEN << >>
  ELSE IF Head(calls).pc # "waiting"
    THEN << Head(calls) >> \o RegNotWaiting(Tail(calls))
    ELSE RegNotWaiting(Tail(calls))

\* failHandlers that resolve their attempts and stay subscribed
RegAttemptsFail_KeepsListeners(calls) ==
  [k \in 1..Len(calls) |->
     IF calls[k].pc = "waiting" THEN [calls[k] EXCEPT !.pc = "delay"]
                                ELSE calls[k]]

\* the calls, those that waited for an answer now waiting for the delay
\* between two attempts, their two temporary listeners removed
RegAttemptsFail(calls) ==
  [k \in 1..Len(calls) |->
     IF calls[k].pc = "waiting"
       THEN [calls[k] EXCEPT !.pc = "delay", !.listeners = 0]
       ELSE calls[k]]

\* regCalls with the k-th call of c replaced by the calls of r
RegReplace(c, k, r) ==
  [regCalls EXCEPT ![c] =
     SubSeq(@, 1, k - 1) \o r.calls \o SubSeq(@, k + 1, Len(@))]

\* The socket connects.  handleConnect runs registerSocketWithRetry(5, 300)
\* if a token is stored; the calls waiting for the connection go on.  Where
\* the socket also fires 'reconnect' (viaReconnect), its listener runs a
\* second registerSocketWithRetry(5, 300).
socket_connect(c, viaReconnect) ==
  /\ nConnects < MaxConnects
  /\ ~connected[c]
  /\ nConnects' = nConnects + 1
  /\ connected' = [connected EXCEPT ![c] = TRUE]
  /\ LET first == RegStart(token[c], ConnectRetries, TRUE)
         second == IF viaReconnect
                     THEN RegStart(token[c], ConnectRetries, TRUE)
                     ELSE [calls |-> << >>, emits |-> << >>,
                           returns |-> << >>]
         resumed == RegOnConnect(regCalls[c])
     IN  /\ regCalls' =
              [regCalls EXCEPT ![c] =
                 resumed.calls \o first.calls \o second.calls]
         /\ sockOut' =
              [sockOut EXCEPT ![c] =
                 @ \o first.emits \o resumed.emits \o second.emits]
         /\ regReturns' =
              [regReturns EXCEPT ![c] =
                 @ \o first.returns \o resumed.returns \o second.returns]
  /\ UNCHANGED << statusRequests, sessionRoom, sessionId, messages, sockIn, nextMessageId,
                  now, nSends, timerVars, inviteVars, leaveVars, partnerVars,
                  isSocketRegistered, token, joined, nDeliveries, currentView >>

\* a 'disconnect' listener that leaves the session
DisconnectListener_Leaves(c) ==
  [ isSocketRegistered |-> FALSE, sessionRoom |-> NoRoom,
    sessionId |-> NoRoom,
    emits |-> IF sessionRoom[c] # NoRoom
                THEN << [type |-> "leave_room", room_id |-> sessionRoom[c]] >>
                ELSE << >>,
    requests |-> << >> ]

\* isLoggedIn as the listeners of the mount effect read it: the effect runs
\* once, in the first render, where useState(false) holds
MountIsLoggedIn == FALSE

\* the 'disconnect' listener: the state of client c it leaves, the events
\* it emits and the status requests it sends
DisconnectListener(c) ==
  [ isSocketRegistered |-> FALSE, sessionRoom |-> sessionRoom[c],
    sessionId |-> sessionId[c], emits |-> << >>,
    requests |-> IF token[c] # "none" /\ MountIsLoggedIn
                   THEN << [status |-> "idle"] >>
                   ELSE << >> ]

\* The socket disconnects: the events on their way to the client are lost.
\* The 'disconnect' listener sets isSocketRegistered false; its status
\* request is guarded by the isLoggedIn of the mount render, which is false.
socket_disconnect(c) ==
  /\ connected[c]
  /\ connected' = [connected EXCEPT ![c] = FALSE]
  /\ LET after == DisconnectListener(c)
     IN  /\ isSocketRegistered' =
              [isSocketRegistered EXCEPT ![c] = after.isSocketRegistered]
         /\ sessionRoom' = [sessionRoom EXCEPT ![c] = after.sessionRoom]
         /\ sessionId' = [sessionId EXCEPT ![c] = after.sessionId]
         /\ sockOut' = [sockOut EXCEPT ![c] = @ \o after.emits]
         /\ statusRequests' =
              [statusRequests EXCEPT ![c] = @ \o after.requests]
  /\ sockIn' = [sockIn EXCEPT ![c] = << >>]
  /\ UNCHANGED << messages, nextMessageId, now, nSends, timerVars,
                  inviteVars, leaveVars, partnerVars, regCalls, token,
                  regReturns, nConnects, joined, nDeliveries, currentView >>

\* the match search registers again: setIsSocketRegistered(false), then
\* registerSocketWithRetry(20, 1500)
registerSocketWithRetry(c) ==
  /\ Len(regCalls[c]) + Len(regReturns[c]) < MaxSearches
  /\ sessionRoom[c] = NoRoom             \* the matching UI is rendered
  /\ isSocketRegistered' = [isSocketRegistered EXCEPT ![c] = FALSE]
  /\ LET r == RegStart(token[c], SearchRetries, connected[c])
     IN  /\ regCalls' = [regCalls EXCEPT ![c] = @ \o r.calls]
         /\ sockOut' = [sockOut EXCEPT ![c] = @ \o r.emits]
         /\ regReturns' = [regReturns EXCEPT ![c] = @ \o r.returns]
  /\ UNCHANGED << statusRequests, sessionRoom, sessionId, messages, sockIn, nextMessageId,
                  now, nSends, timerVars, inviteVars, leaveVars, partnerVars,
                  connected, token, nConnects, joined,
                  nDeliveries, currentView >>

\* registration_confirmed arrives: the listener sets isSocketRegistered, and
\* every call waiting for the answer to an attempt returns true
registration_confirmed(c) ==
  /\ sockIn[c] # << >>
  /\ Head(sockIn[c]).type = "registration_confirmed"
  /\ isSocketRegistered' = [isSocketRegistered EXCEPT ![c] = TRUE]
  /\ regCalls' = [regCalls EXCEPT ![c] = RegNotWaiting(@)]
  /\ regReturns' =
       [regReturns EXCEPT ![c] =
          @ \o [k \in 1..Len(RegWaiting(regCalls[c])) |-> [result |-> TRUE]]]
  /\ sockIn' = [sockIn EXCEPT ![c] = Tail(@)]
  /\ UNCHANGED << statusRequests, sessionRoom, sessionId, messages, sockOut, nextMessageId,
                  now, nSends, timerVars, inviteVars, leaveVars, partnerVars,
                  connected, token, nConnects, joined,
                  nDeliveries, currentView >>

\* registration_failed arrives: the listener clears isSocketRegistered, and
\* the attempt of every waiting call fails
registration_failed(c) ==
  /\ sockIn[c] # << >>
  /\ Head(sockIn[c]).type = "registration_failed"
  /\ isSocketRegistered' = [isSocketRegistered EXCEPT ![c] = FALSE]
  /\ regCalls' = [regCalls EXCEPT ![c] = RegAttemptsFail(@)]
  /\ sockIn' = [sockIn EXCEPT ![c] = Tail(@)]
  /\ UNCHANGED << statusRequests, sessionRoom, sessionId, messages, sockOut, nextMessageId,
                  now, nSends, timerVars, inviteVars, leaveVars, partnerVars,
                  connected, token, regReturns, nConnects, joined,
                  nDeliveries, currentView >>

\* the timeout (2 x delay) of the attempt of the k-th call fires
regAttemptTimeout(c, k) ==
  /\ k \in 1..Len(regCalls[c])
  /\ regCalls[c][k].pc = "waiting"
  /\ regCalls' =
       [regCalls EXCEPT ![c][k].pc = "delay", ![c][k].listeners = 0]
  /\ UNCHANGED << statusRequests, timerVars, chatVars, inviteVars, leaveVars, partnerVars,
                  isSocketRegistered, connected, token, regReturns,
                  nConnects, joined, nDeliveries, currentView >>

\* the wait of the k-th call is over without a 'connect' event: after the
\* delay between two attempts and after the wait of a loop pass the loop
\* goes on; after the 5 s of the first wait the call returns false
regWaitEnds(c, k) ==
  /\ k \in 1..Len(regCalls[c])
  /\ regCalls[c][k].pc \in { "delay", "reconnecting", "connecting" }
  /\ LET call == regCalls[c][k]
         r == IF call.pc = "connecting"
                THEN [calls |-> << >>, emits |-> << >>,
                      returns |-> RegReturn(FALSE)]
                ELSE RegLoop([call EXCEPT !.i = @ + 1], connected[c])
     IN  /\ regCalls' = RegReplace(c, k, r)
         /\ sockOut' = [sockOut EXCEPT ![c] = @ \o r.emits]
         /\ regReturns' = [regReturns EXCEPT ![c] = @ \o r.returns]
  /\ UNCHANGED << statusRequests, sessionRoom, sessionId, messages, sockIn, nextMessageId,
                  now, nSends, timerVars, inviteVars, leaveVars, partnerVars,
                  isSocketRegistered, connected, token, nConnects, joined,
                  nDeliveries, currentView >>

\* Connection Gateway, from the specification (4.6, 6): register_connection
\* is answered by registration_confirmed if the credential is accepted and
\* by registration_failed otherwise; the answer to a socket that is gone is
\* lost.
RegisterConnection(c) ==
  /\ sockOut[c] # << >>
  /\ Head(sockOut[c]).type = "register_connection"
  /\ sockIn' =
       [sockIn EXCEPT ![c] =
          IF connected[c]
            THEN Append(@, [type |-> IF Head(sockOut[c]).token = "valid"
                                       THEN "registration_confirmed"
                                       ELSE "registration_failed"])
            ELSE @]
  /\ sockOut' = [sockOut EXCEPT ![c] = Tail(@)]
  /\ UNCHANGED << sessionRoom, sessionId, messages, nextMessageId, now,
                  nSends, timerVars, inviteVars, sessionVars >>

\* as AcceptInit, with any token in the localStorage of each user
ConnInit ==
  /\ TimerInit
  /\ SessionIdle
  /\ token \in [Clients -> Tokens]
  /\ joined = [c \in Clients |-> IF c \in Inviters THEN NoRoom ELSE Room1]
  /\ sessionPartner = [c \in Clients |->
                         IF c \in Inviters THEN NoUser ELSE Outsider]
  /\ sessionRoom = [c \in Clients |-> IF c \in Inviters THEN NoRoom ELSE Room1]
  /\ sessionId = [c \in Clients |->
                    IF c \in Inviters THEN NoRoom ELSE SessionOf(Room1)]
  /\ messages = [c \in Clients |-> << >>]
  /\ sockOut = [c \in Clients |-> << >>]
  /\ sockIn = [c \in Clients |-> << >>]
  /\ nextMessageId = 1
  /\ now = 0
  /\ nSends = 0
  /\ incomingInvite = [c \in Clients |-> NoUser]
  /\ inviteTimer = [c \in Clients |-> INVITE_SECONDS]
  /\ outgoingInvite = [c \in Clients |-> NoUser]
  /\ outgoingInviteTimer = [c \in Clients |-> INVITE_SECONDS]
  /\ message = [c \in Clients |-> ""]
  /\ profileMessage = [c \in Clients |-> ""]
  /\ profileClears = [c \in Clients |-> 0]
  /\ matchResults = Friends
  /\ inviteCalls = [c \in Clients |-> << >>]
  /\ acceptWaits = [c \in Clients |-> << >>]
  /\ pendingInvite = [c \in Clients |-> NoUser]
  /\ nextRoom = Room1 + 1
  /\ resolved = [c \in Clients |-> 0]
  /\ cleared = [c \in Clients |-> ""]
  /\ nInvites = 0
  /\ nAccepts = 0

\* positions in regCalls: two calls per 'connect', those of the searches
RegSlots == 1..(2 * MaxConnects + MaxSearches)

ConnNext ==
  \/ \E c \in Clients : \E viaReconnect \in BOOLEAN :
        socket_connect(c, viaReconnect)
  \/ \E c \in Clients : socket_disconnect(c)
  \/ \E c \in Clients : registerSocketWithRetry(c)
  \/ \E c \in Clients : registration_confirmed(c)
  \/ \E c \in Clients : registration_failed(c)
  \/ \E c \in Clients : \E k \in RegSlots : regAttemptTimeout(c, k)
  \/ \E c \in Clients : \E k \in RegSlots : regWaitEnds(c, k)
  \/ \E c \in Clients : RegisterConnection(c)

SpecConn == ConnInit /\ [][ConnNext]_vars

\* the setTimeout callbacks of the calls run once they are due; the server
\* and the network owe nothing
SpecConnFair ==
  /\ ConnInit
  /\ [][ConnNext]_vars
  /\ \A c \in Clients :
       /\ WF_vars(\E k \in RegSlots : regAttemptTimeout(c, k))
       /\ WF_vars(\E k \in RegSlots : regWaitEnds(c, k))

\* --------------------------------------- App: match_confirmed once more

\* Delivery, from the specification (1): the connection may deliver an event
\* again, here the match_confirmed of the session the user is in, and the
\* client has to stand an event that lacks its room_id.
DeliverMatchConfirmed(c, withRoom) ==
  /\ nDeliveries < MaxDeliveries
  /\ joined[c] # NoRoom
  /\ Len(sockIn[c]) < MaxQueue
  /\ nDeliveries' = nDeliveries + 1
  /\ sockIn' =
       [sockIn EXCEPT ![c] =
          Append(@, [type |-> "match_confirmed",
                     data |-> [room_id |-> IF withRoom THEN joined[c]
                                                       ELSE NoRoom,
                               session_id |-> sessionId[c]]])]
  /\ UNCHANGED << sessionRoom, sessionId, messages, sockOut, nextMessageId,
                  now, nSends, timerVars, inviteVars, leaveVars, partnerVars,
                  connVars, joined, currentView >>

RejoinNext ==
  \/ \E c \in Clients : \E withRoom \in BOOLEAN :
        DeliverMatchConfirmed(c, withRoom)
  \/ \E c \in Clients : handleMatchConfirmed(c)
  \/ \E c \in Clients : JoinRoom(c)
  \/ \E c \in Clients : \E typed \in Texts : handleSendMessage(c, typed)
  \/ \E c \in Clients : ChatRelaySend(c)
  \/ \E c \in Clients : receive_message(c)

\* two users in the session of room Room1, chatting, to whom match_confirmed
\* is delivered again
SpecRejoin == ChatInit /\ [][RejoinNext]_vars

\* ------------------------------------------------------------------ claims

\* the entries of list that are copies of the logical message lid
Copies(list, lid) == { i \in 1..Len(list) : list[i].lid = lid }

\* C1: once the server's echo of a message that client c sent has been
\* handled by c, the message list of c holds exactly one entry for that
\* message (the optimistic copy and the echo collapse to one).
C1_EchoCollapses ==
  \A c \in Clients : \A i \in 1..Len(messages[c]) :
    (messages[c][i].id.kind = "server" /\ messages[c][i].lid[1] = c)
      => Cardinality(Copies(messages[c], messages[c][i].lid)) = 1

\* both clocks at 0% elapsed, stopped, and equal
ResetAligned ==
  /\ \A c \in Clients : /\ timeRemaining[c] = getCurrentDuration(c)
                        /\ getProgress(c) = 0
                        /\ ~isRunning[c]
  /\ \A c, d \in Clients : /\ mode[c] = mode[d]
                           /\ timeRemaining[c] = timeRemaining[d]

\* C2: when the last client handles a reset and nothing else is in flight
\* (the reset has then been handled by both clients), both clients show 0%
\* elapsed: each at its own full duration, same mode, same time, stopped.
C2_ResetShowsZeroElapsed ==
  [][ \A c \in Clients :
        ( /\ handleTimerUpdate(c)
          /\ Head(inbox[c]).action = "reset"
          /\ Quiet' )
        => ResetAligned' ]_vars

\* the full configured duration of client c's current mode
FullDuration(c) ==
  IF TIMER_PRESETS[mode[c]][selectedPreset[c][mode[c]]] # NullTime
    THEN TIMER_PRESETS[mode[c]][selectedPreset[c][mode[c]]]
    ELSE customDurations[c][mode[c]]

\* C3: every handleReset emits exactly one timer_action: 'reset', with the
\* sender's mode and the full configured duration of that mode, whatever
\* timeRemaining and isRunning were at the call.
C3_ResetSendsFullDuration ==
  [][ \A c \in Clients :
        handleReset(c) =>
          outbox'[c] = Append(outbox[c], [action |-> "reset",
                                          time |-> FullDuration(c),
                                          mode |-> mode[c]]) ]_vars

\* C3 witness: a reset called on a running, partly elapsed timer is in the
\* sender's queue, carrying the full duration.
C3_Witness ==
  /\ burst.resetPartial
  /\ \E c \in Clients :
        /\ outbox[c] # << >>
        /\ outbox[c][Len(outbox[c])].action = "reset"
        /\ outbox[c][Len(outbox[c])].time = DEFAULT_POMODORO_TIME
        /\ ~isRunning[c]

\* C4: after a client handled a timer_update, whatever its action, its
\* timeRemaining is the time the update carried.
C4_ReseededOnEveryAction ==
  [][ \A c \in Clients :
        handleTimerUpdate(c) => timeRemaining'[c] = Head(inbox[c]).time ]_vars

\* C5: both participants issued control actions while the other's were still
\* in flight; once all of it is delivered, with no local clock step in
\* between, both clients hold the same mode, timeRemaining and isRunning.
C5_ConcurrentActionsConverge ==
  (Quiet /\ burst.issuers = Clients /\ ~burst.ticked)
    => \A c, d \in Clients : /\ mode[c] = mode[d]
                            /\ timeRemaining[c] = timeRemaining[d]
                            /\ isRunning[c] = isRunning[d]

\* client c has an invitation outstanding: a request that has not returned
\* (and was not refused), or an outgoing invitation not yet cleared
InviteOutstanding(c) ==
  \/ outgoingInvite[c] # NoUser
  \/ \E i \in 1..Len(inviteCalls[c]) : inviteCalls[c][i].pc \in {"posted", "ok"}

\* C6: a client issues an invitation request (POST /api/match/invite or
\* /api/match/invite-friend) only while it has no invitation outstanding,
\* also when the earlier request has not returned yet.
C6_OneOutstandingInvite ==
  [][ \A c \in Clients : \A u \in Clients :
        ( /\ handleSendInvite(c, u) \/ handleInviteFriend(c, u)
          /\ Len(inviteCalls'[c]) > Len(inviteCalls[c]) )
        => ~InviteOutstanding(c) ]_vars

\* C7: on the invitation its pop-up shows, a client performs at most one
\* resolution among accept (accept_invitation emitted), decline
\* (decline_invitation emitted) and local expiry (inviteTimer reaching 0).
C7_AtMostOneResolution ==
  \A c \in Clients : resolved[c] <= 1

\* C8: when the invite_declined listener runs while an outgoing invitation
\* is pending, outgoingInvite becomes null and outgoingInviteTimer 15, and
\* the pending-invitation guard of handleSendInvite does not hold any more.
C8_DeclineFreesInviter ==
  [][ \A c \in Clients :
        (invite_declined(c) /\ outgoingInvite[c] # NoUser)
        => /\ outgoingInvite'[c] = NoUser
           /\ outgoingInviteTimer'[c] = 15
           /\ ~PendingInviteGuard(c)' ]_vars

\* C8 witness: after a decline cleared its outgoing invitation, the inviter
\* called handleSendInvite again and the request went out.
C8_Witness ==
  \E c \in Clients :
    /\ cleared[c] = "declined"
    /\ outgoingInvite[c] = NoUser /\ outgoingInviteTimer[c] = 15
    /\ message[c] = "sending"
    /\ \E i \in 1..Len(inviteCalls[c]) : inviteCalls[c][i].api = "invite"

\* C9: an outgoing invitation is set with 15 seconds on its timer; every
\* tick of the timer takes one second off while more than one is left, and the
\* fifteenth clears the invitation, puts the timer back to 15 and lifts the
\* guard of handleSendInvite; so a pending outgoing invitation is eventually
\* cleared, whether or not invite_declined or match_confirmed arrives.
C9_OutgoingInviteExpires ==
  /\ [][ \A c \in Clients :
           /\ handleSendInviteReturn(c) /\ Head(inviteCalls[c]).pc = "ok"
                => outgoingInvite'[c] # NoUser /\ outgoingInviteTimer'[c] = 15
           /\ outgoingInviteTimerTick(c)
                => IF outgoingInviteTimer[c] > 1
                     THEN /\ outgoingInvite'[c] = outgoingInvite[c]
                          /\ outgoingInviteTimer'[c] = outgoingInviteTimer[c] - 1
                     ELSE /\ outgoingInvite'[c] = NoUser
                          /\ outgoingInviteTimer'[c] = 15
                          /\ ~PendingInviteGuard(c)' ]_vars
  /\ [](\A c \in Clients :
          outgoingInvite[c] # NoUser => outgoingInviteTimer[c] \in 1..15)
  /\ \A c \in Clients :
       (outgoingInvite[c] # NoUser)
         ~> (outgoingInvite[c] = NoUser /\ outgoingInviteTimer[c] = 15)

\* C9 witness: after the timer cleared its outgoing invitation, the inviter
\* called handleSendInvite again and the request went out.
C9_Witness ==
  \E c \in Clients :
    /\ cleared[c] = "expired"
    /\ outgoingInvite[c] = NoUser /\ outgoingInviteTimer[c] = 15
    /\ message[c] = "sending"
    /\ \E i \in 1..Len(inviteCalls[c]) : inviteCalls[c][i].api = "invite"

\* C10: handling match_confirmed with a room_id, a client sets sessionRoom
\* and sessionId to the event's room_id and session_id and emits join_room
\* with that room_id; two clients in the same session (they handled the
\* match_confirmed of the same accepted invitation) hold the same sessionRoom.
C10_MatchConfirmedJoinsRoom ==
  /\ [][ \A c \in Clients :
           (handleMatchConfirmed(c) /\ Head(sockIn[c]).data.room_id # NoRoom)
           => /\ sessionRoom'[c] = Head(sockIn[c]).data.room_id
              /\ sessionId'[c] = Head(sockIn[c]).data.session_id
              /\ sockOut'[c] =
                   Append(sockOut[c],
                          [type |-> "join_room",
                           room_id |-> Head(sockIn[c]).data.room_id]) ]_vars
  /\ [](\A c, d \in Clients :
          (sessionId[c] # NoRoom /\ sessionId[c] = sessionId[d])
            => sessionRoom[c] = sessionRoom[d])

\* C10 witness: both clients handled the match_confirmed of the first
\* accepted invitation; the invitee's join_room is still on its way.
C10_Witness ==
  /\ \A c \in Clients : sessionRoom[c] = 1 /\ sessionId[c] = SessionOf(1)
  /\ \E c \in Clients :
       /\ sockOut[c] # << >>
       /\ sockOut[c][Len(sockOut[c])] = [type |-> "join_room", room_id |-> 1]


\* C13: a client that handles a 'skip' timer_update ends at timeRemaining
\* 0 with isRunning false; in mode pomodoro its completion logic ran exactly
\* once (pomodoroCount + 1, one pomodoro_completed emitted), in a break mode
\* the count is unchanged and nothing is emitted.
C13_SkipCompletesOnce ==
  [][ \A c \in Clients :
        (handleTimerUpdate(c) /\ Head(inbox[c]).action = "skip")
        => /\ timeRemaining'[c] = 0
           /\ ~isRunning'[c]
           /\ IF mode[c] = "pomodoro"
                THEN /\ pomodoroCount'[c] = pomodoroCount[c] + 1
                     /\ completedEmits'[c] = completedEmits[c] + 1
                ELSE /\ pomodoroCount'[c] = pomodoroCount[c]
                     /\ completedEmits'[c] = completedEmits[c] ]_vars

\* C13 witness: a client in mode pomodoro handled a skip (no tick took its
\* clock to 0): one pomodoro counted, one pomodoro_completed emitted.
C13_Witness ==
  \E c \in Clients :
    /\ nTicks = 0
    /\ mode[c] = "pomodoro" /\ timeRemaining[c] = 0 /\ ~isRunning[c]
    /\ pomodoroCount[c] = 1 /\ completedEmits[c] = 1

\* the control handlers of client c (the completion timeout calls
\* handleStartPause)
ControlHandler(c) ==
  \/ handleStartPause(c) \/ handleReset(c) \/ handleSkip(c)
  \/ \E m \in Modes : handleSetMode(c, m)
  \/ \E i \in 0..3 : handlePresetChange(c, i)
  \/ \E mins \in CustomMinutes : handleCustomDurationChange(c, mins)
  \/ AutoAdvance(c)

\* C14: a countdown tick emits no timer_action; a timer_action is emitted
\* only by a control handler.
C14_TicksDoNotBroadcast ==
  [][ \A c \in Clients :
        /\ Tick(c) => outbox' = outbox
        /\ Len(outbox'[c]) > Len(outbox[c]) => ControlHandler(c) ]_vars

\* C14 witness: the clock of a running client has ticked and nothing was
\* emitted by it.
C14_Witness ==
  \E c \in Clients :
    /\ nTicks = 1 /\ burst.ticked
    /\ isRunning[c] /\ timeRemaining[c] = DEFAULT_POMODORO_TIME - 1
    /\ Quiet

\* list a is an initial part of list b
IsPrefix(a, b) ==
  Len(a) <= Len(b) /\ \A i \in 1..Len(a) : a[i] = b[i]

\* C18: the receive_message listener leaves the list unchanged when the id
\* is already in it and appends otherwise (entries keep their arrival order);
\* so, duplicated deliveries included, the list never holds two entries with
\* the same server message id.
C18_ReceiveDeduplicates ==
  /\ [][ \A c \in Clients :
           receive_message(c)
           => /\ IsPrefix(messages[c], messages'[c])
              /\ (\E i \in 1..Len(messages[c]) :
                    messages[c][i].id = Head(sockIn[c]).data.id)
                 => messages'[c] = messages[c] ]_vars
  /\ [](\A c \in Clients : \A i, j \in 1..Len(messages[c]) :
          ( /\ messages[c][i].id.kind = "server"
            /\ messages[c][i].id = messages[c][j].id ) => i = j)

\* C18 witness: a client handled a message, its duplicate and a second
\* message: two entries, in the order of the server ids.
C18_Witness ==
  \E c \in Clients :
    /\ Len(messages[c]) = 2
    /\ messages[c][1].id = [kind |-> "server", n |-> 1]
    /\ messages[c][2].id = [kind |-> "server", n |-> 2]
    /\ sockIn[c] # << >>
    /\ Head(sockIn[c]).data.id = [kind |-> "server", n |-> 2]

\* C12: when an error event arrives at a client that has emitted
\* accept_invitation and still shows "Accepting invitation...", the client
\* closes the pop-up (incomingInvite null), shows the error, has no
\* listener or timer of the attempt left and emits nothing.
C12_ErrorAfterAcceptIsFinal ==
  [][ \A c \in Clients :
        (socket_error(c) /\ message[c] = "accepting")
        => /\ incomingInvite'[c] = NoUser
           /\ message'[c] = "error"
           /\ acceptWaits'[c] = << >>
           /\ sockOut'[c] = sockOut[c] ]_vars

\* C17: the wait of an accept attempt is ended only by match_confirmed, by
\* an error event or by its 15 s timeout, and the timeout shows an error and
\* closes the pop-up.
C17_AcceptWaitEndsExplicitly ==
  [][ \A c \in Clients :
        Len(acceptWaits'[c]) < Len(acceptWaits[c])
        => \/ handleMatchConfirmed(c)
           \/ socket_error(c)
           \/ /\ acceptWaitEnds(c)
              /\ message'[c] = "noresponse"
              /\ incomingInvite'[c] = NoUser ]_vars

\* C11: when the notification that the partner left the room reaches the
\* client of the remaining participant, the state the client shows changes
\* (session, partner, status message or message list).
C11_PartnerLeftIsShown ==
  [][ \A c \in Clients :
        ( /\ sockIn[c] # << >>
          /\ Head(sockIn[c]).type = "partner_left"
          /\ sockIn'[c] = Tail(sockIn[c]) )
        => << sessionRoom[c], sessionId[c], sessionPartner[c], message[c],
              messages[c], showRatingModal[c] >>'
           # << sessionRoom[c], sessionId[c], sessionPartner[c], message[c],
                messages[c], showRatingModal[c] >> ]_vars

C15_RegistrationResult ==
  [][ \A c \in Clients :
        /\ ( /\ Len(regReturns'[c]) > Len(regReturns[c])
             /\ \E k \in (Len(regReturns[c]) + 1)..Len(regReturns'[c]) :
                  regReturns'[c][k].result )
           => /\ registration_confirmed(c)
              /\ RegWaiting(regCalls[c]) # << >>
        /\ (registerSocketWithRetry(c) /\ token[c] = "none")
           => /\ regReturns'[c] = regReturns[c] \o << [result |-> FALSE] >>
              /\ regCalls'[c] = regCalls[c]
              /\ sockOut' = sockOut
        /\ registration_failed(c)
           => /\ regReturns' = regReturns
              /\ ~isSocketRegistered'[c]
              /\ \A k \in 1..Len(regCalls'[c]) :
                   regCalls'[c][k].pc # "waiting" ]_vars

\* one user's call has returned true, another's, without a token, false
C15_Witness ==
  \E c, d \in Clients :
    /\ \E k \in 1..Len(regReturns[c]) : regReturns[c][k].result
    /\ isSocketRegistered[c]
    /\ token[d] = "none"
    /\ regReturns[d] = << [result |-> FALSE] >>

C20_ConnectRegisters ==
  [][ \A c \in Clients : \A viaReconnect \in BOOLEAN :
        (socket_connect(c, viaReconnect) /\ token[c] # "none")
        => /\ Len(sockOut'[c]) > Len(sockOut[c])
           /\ SubSeq(sockOut'[c], 1, Len(sockOut[c])) = sockOut[c]
           /\ \A k \in (Len(sockOut[c]) + 1)..Len(sockOut'[c]) :
                sockOut'[c][k] = [type |-> "register_connection",
                                  token |-> token[c]]
           /\ UNCHANGED << sessionRoom, sessionId, messages, sessionPartner,
                           appPomodoroCount, incomingInvite, outgoingInvite,
                           inviteTimer, outgoingInviteTimer, pendingInvite,
                           acceptWaits, joined >> ]_vars

\* a user in a session has connected again and is registered again: the
\* second connection's register_connection was answered
C20_Witness ==
  \E c \in Clients :
    /\ sessionRoom[c] # NoRoom
    /\ nConnects > 0
    /\ connected[c]
    /\ isSocketRegistered[c]
    /\ \E k \in 1..Len(regReturns[c]) : regReturns[c][k].result

\* C21: an invitation the invitee neither accepts nor declines counts down
\* one second per tick from 15 and is closed by the client at 0
\* (incomingInvite null, inviteTimer back at 15) without an emission; an
\* invitation that is received starts at 15; a shown invitation is
\* eventually closed.
C21_IncomingInviteExpires ==
  /\ [](\A c \in Clients :
          IF incomingInvite[c] = NoUser
            THEN inviteTimer[c] = INVITE_SECONDS
            ELSE inviteTimer[c] \in 1..INVITE_SECONDS)
  /\ [][ \A c \in Clients :
           /\ inviteTimerTick(c)
              => /\ sockOut' = sockOut
                 /\ IF inviteTimer[c] > 1
                      THEN /\ inviteTimer'[c] = inviteTimer[c] - 1
                           /\ incomingInvite'[c] = incomingInvite[c]
                      ELSE /\ inviteTimer'[c] = 15
                           /\ incomingInvite'[c] = NoUser
           /\ (handleInviteReceived(c) /\ Head(sockIn[c]).data.inviter # NoUser)
              => /\ inviteTimer'[c] = 15
                 /\ incomingInvite'[c] = Head(sockIn[c]).data.inviter ]_vars
  /\ \A c \in Clients : (incomingInvite[c] # NoUser) ~> (incomingInvite[c] = NoUser)

\* an invitation nobody answered is in its last second
C21_Witness ==
  \E c \in Clients :
    /\ incomingInvite[c] # NoUser
    /\ inviteTimer[c] = 1
    /\ nAccepts = 0
    /\ resolved[c] = 0

\* C22: a match_confirmed for the room the client is in already changes
\* nothing: message list, pomodoroCount and session stay and no join_room is
\* emitted.
C22_DuplicateMatchIgnored ==
  [][ \A c \in Clients :
        ( /\ handleMatchConfirmed(c)
          /\ sessionRoom[c] # NoRoom
          /\ Head(sockIn[c]).data.room_id = sessionRoom[c] )
        => /\ messages'[c] = messages[c]
           /\ appPomodoroCount'[c] = appPomodoroCount[c]
           /\ sessionRoom'[c] = sessionRoom[c]
           /\ sessionId'[c] = sessionId[c]
           /\ sockOut'[c] = sockOut[c] ]_vars

\* C29: a match_confirmed without room_id only sets the error message:
\* sessionRoom, sessionId, messages, pomodoroCount, incomingInvite and
\* outgoingInvite stay and no join_room is emitted.
C29_MatchWithoutRoomRejected ==
  [][ \A c \in Clients :
        (handleMatchConfirmed(c) /\ Head(sockIn[c]).data.room_id = NoRoom)
        => /\ message'[c] = "invalid"
           /\ sessionRoom' = sessionRoom
           /\ sessionId' = sessionId
           /\ messages' = messages
           /\ appPomodoroCount' = appPomodoroCount
           /\ incomingInvite' = incomingInvite
           /\ outgoingInvite' = outgoingInvite
           /\ sockOut' = sockOut ]_vars

\* a user with chat messages has rejected a match_confirmed without room_id
C29_Witness ==
  \E c \in Clients :
    /\ message[c] = "invalid"
    /\ messages[c] # << >>
    /\ sessionRoom[c] = Room1

\* C23: once a set_mode timer_update that changes the receiver's mode is
\* handled and the effects of the render have run, the receiver's mode is
\* the carried mode, its timeRemaining the carried time and isRunning false.
C23_SetModeUpdateAdopted ==
  [][ \A c \in Clients :
        ( /\ handleTimerUpdate(c)
          /\ Head(inbox[c]).action = "set_mode"
          /\ Head(inbox[c]).mode # mode[c] )
        => /\ mode'[c] = Head(inbox[c]).mode
           /\ timeRemaining'[c] = Head(inbox[c]).time
           /\ ~isRunning'[c] ]_vars

\* C24: when the completion timeout fires with auto-start enabled, the
\* client is switched to the next mode (a break after a focus interval,
\* pomodoro after a break) and the one timer_action it emits is a 'start',
\* never a 'pause'.
C24_AutoAdvanceStarts ==
  [][ \A c \in Clients :
        AutoAdvance(c)
        => /\ mode'[c] = Head(autoTimers[c]).target
           /\ Len(outbox'[c]) = Len(outbox[c]) + 1
           /\ outbox'[c][Len(outbox'[c])].action = "start" ]_vars

\* C25: the break chosen when a focus interval completes with auto-start
\* enabled is 'long' exactly when the new pomodoro count is a multiple of 4
\* and 'short' otherwise; the timeout switches to that mode without
\* emitting a set_mode timer_action.
C25_LongBreakEveryFourth ==
  /\ [][ \A c \in Clients :
          ( /\ Tick(c)
            /\ timeRemaining[c] = 1
            /\ mode[c] = "pomodoro"
            /\ autoStartBreaks[c] )
          => /\ Len(autoTimers'[c]) = Len(autoTimers[c]) + 1
             /\ autoTimers'[c][Len(autoTimers'[c])].target =
                  (IF pomodoroCount'[c] % 4 = 0 THEN "long" ELSE "short") ]_vars
  /\ [][ \A c \in Clients :
          AutoAdvance(c)
          => /\ mode'[c] = Head(autoTimers[c]).target
             /\ \A i \in (Len(outbox[c]) + 1)..Len(outbox'[c]) :
                  outbox'[c][i].action # "set_mode" ]_vars

\* a fourth pomodoro was completed and the timeout moved to the long break
C25_Witness ==
  \E c \in Clients :
    /\ pomodoroCount[c] = 4
    /\ mode[c] = "long"
    /\ autoTimers[c] = << >>
    /\ outbox[c] # << >>

\* C30: a running timer with time left, with no control action, loses
\* exactly one second per tick and reaches 0; the completion then runs
\* once (isRunning false; in pomodoro mode the count goes up by one with
\* one pomodoro_completed, in a break mode neither changes), nothing else
\* counts a pomodoro, and the stopped timer does not run again.
C30_CountdownCompletesOnce ==
  /\ [][ \A c \in Clients :
          Tick(c) => timeRemaining'[c] = timeRemaining[c] - 1 ]_vars
  /\ \A c \in Clients :
        (isRunning[c] /\ timeRemaining[c] > 0)
          ~> (timeRemaining[c] = 0 /\ ~isRunning[c])
  /\ [][ \A c \in Clients :
          (Tick(c) /\ timeRemaining[c] = 1)
          => LET n == IF mode[c] = "pomodoro" THEN 1 ELSE 0
             IN  /\ ~isRunning'[c]
                 /\ pomodoroCount'[c] = pomodoroCount[c] + n
                 /\ completedEmits'[c] = completedEmits[c] + n ]_vars
  /\ [][ \A c \in Clients :
          ( \/ pomodoroCount'[c] # pomodoroCount[c]
            \/ completedEmits'[c] # completedEmits[c] )
          => (Tick(c) /\ timeRemaining[c] = 1) ]_vars
  /\ [][ \A c \in Clients : ~isRunning[c] => ~isRunning'[c] ]_vars

\* one client counted down two seconds to 0 and its pomodoro was counted,
\* while the other client's timer stayed paused
C30_Witness ==
  \E c \in Clients :
    /\ nTicks = 2
    /\ timeRemaining[c] = 0 /\ ~isRunning[c]
    /\ pomodoroCount[c] = MaxCount + 1
    /\ completedEmits[c] = MaxCount + 1
    /\ \A d \in Clients \ {c} :
         ~isRunning[d] /\ timeRemaining[d] \in LastSeconds

\* C26: every end-session request of a client carries the id of its
\* session and a pomodoro_count equal to the number of focus intervals the
\* client has counted in that session, the request of the sessionId effect
\* cleanup included.
C26_EndRequestCarriesCount ==
  \A c \in Clients : \A i \in DOMAIN endRequests[c] :
    /\ endRequests[c][i].session_id = 1
    /\ endRequests[c][i].pomodoro_count = completedEmits[c]

\* C27: handleLeaveSession, called in a session with the socket connected,
\* emits leave_room for the current room before it sends the end-session
\* request; when it completes, sessionRoom and sessionId are null, messages
\* is empty, sessionPartner is null and pomodoroCount is 0.
C27_LeaveRoomBeforeEndRequest ==
  /\ [][ \A c \in Clients :
          ( /\ handleLeaveSession(c)
            /\ sessionId[c] # NoRoom
            /\ connected[c] )
          => /\ \E i, j \in DOMAIN LeaveSends(c) :
                  /\ i < j
                  /\ LeaveSends(c)[i] =
                       [type |-> "leave_room", room_id |-> sessionRoom[c]]
                  /\ LeaveSends(c)[j].type = "end_session"
             /\ sockOut'[c] =
                  Append(sockOut[c],
                         [type |-> "leave_room", room_id |-> sessionRoom[c]])
             /\ Len(endRequests'[c]) = Len(endRequests[c]) + 1 ]_vars
  /\ [][ \A c \in Clients :
          handleLeaveSessionReturn(c)
          => /\ sessionRoom'[c] = NoRoom
             /\ sessionId'[c] = NoRoom
             /\ messages'[c] = << >>
             /\ sessionPartner'[c] = NoUser
             /\ appPomodoroCount'[c] = 0 ]_vars

\* a user who had counted pomodoros and had sent a chat message has left
C27_Witness ==
  \E c \in Clients :
    /\ completedEmits[c] > 0
    /\ sessionRoom[c] = NoRoom /\ sessionId[c] = NoRoom
    /\ messages[c] = << >> /\ appPomodoroCount[c] = 0
    /\ leaveCalls[c] = << >>
    /\ endRequests[c] # << >>
    /\ \E i, j \in DOMAIN sockOut[c] :
         /\ i < j
         /\ sockOut[c][i].type = "send_message"
         /\ sockOut[c][j].type = "leave_room"
    /\ showRatingModal[c]

\* C28: registerSocketWithRetry always terminates, whatever the server
\* does: every call that was started returns; a call never passes the test
\* of its loop more than maxRetries times; a call holds its two temporary
\* listeners exactly while an attempt is unresolved; an attempt is resolved
\* only by registration_confirmed, registration_failed or its timeout, and
\* a resolved attempt is no longer waiting.
C28_RegistrationTerminates ==
  /\ \A c \in Clients : (regCalls[c] # << >>) ~> (regCalls[c] = << >>)
  /\ [](\A c \in Clients : \A k \in DOMAIN regCalls[c] :
          /\ regCalls[c][k].i < regCalls[c][k].maxRetries
          /\ regCalls[c][k].listeners =
               (IF regCalls[c][k].pc = "waiting" THEN 2 ELSE 0))
  /\ [][ \A c \in Clients :
          /\ registration_confirmed(c)
             => /\ RegWaiting(regCalls'[c]) = << >>
                /\ Len(regReturns'[c]) =
                     Len(regReturns[c]) + Len(RegWaiting(regCalls[c]))
          /\ registration_failed(c)
             => /\ RegWaiting(regCalls'[c]) = << >>
                /\ Len(regCalls'[c]) = Len(regCalls[c])
                /\ \A k \in DOMAIN regCalls[c] :
                     /\ regCalls'[c][k].i = regCalls[c][k].i
                     /\ regCalls[c][k].pc # "waiting"
                        => regCalls'[c][k] = regCalls[c][k]
                /\ regReturns'[c] = regReturns[c]
          /\ Len(RegWaiting(regCalls'[c])) < Len(RegWaiting(regCalls[c]))
             => \/ registration_confirmed(c)
                \/ registration_failed(c)
                \/ \E k \in RegSlots : regAttemptTimeout(c, k) ]_vars

\* a call gave up after maxRetries attempts that the server never answered
C28_Witness ==
  \E c \in Clients :
    /\ regCalls[c] = << >>
    /\ \E k \in DOMAIN regReturns[c] : ~regReturns[c][k].result
    /\ token[c] = "valid"
    /\ Len(sockOut[c]) >= MaxRetries
    /\ \A k \in DOMAIN sockOut[c] : sockOut[c][k].type = "register_connection"

\* C31: when the socket of a logged-in user with a stored token
\* disconnects, the disconnect listener sends a status request with status
\* idle.
C31_DisconnectSetsIdle ==
  [][ \A c \in Clients :
        (socket_disconnect(c) /\ token[c] # "none")
        => /\ Len(statusRequests'[c]) = Len(statusRequests[c]) + 1
           /\ statusRequests'[c][Len(statusRequests'[c])].status = "idle" ]_vars

\* C34: an invite_declined event that refers to another user than the one
\* of the pending outgoing invitation leaves that invitation as it is.
C34_DeclineClearsOnlyItsInvite ==
  [][ \A c \in Clients :
        ( /\ invite_declined(c)
          /\ outgoingInvite[c] # NoUser
          /\ Head(sockIn[c]).data.invitee # outgoingInvite[c] )
        => /\ outgoingInvite'[c] = outgoingInvite[c]
           /\ outgoingInviteTimer'[c] = outgoingInviteTimer[c] ]_vars

\* C32: handleStartPause and handleSkip leave timeRemaining, isRunning and
\* mode of the caller as they are and only emit one timer_action; a stopped
\* timer starts running only when a timer_update is handled; handleReset
\* and handleSetMode apply their result locally and emit it.
C32_StartPauseSkipOnlyEmit ==
  /\ [][ \A c \in Clients :
          (handleStartPause(c) \/ handleSkip(c))
          => /\ timeRemaining'[c] = timeRemaining[c]
             /\ isRunning'[c] = isRunning[c]
             /\ mode'[c] = mode[c]
             /\ pomodoroCount'[c] = pomodoroCount[c]
             /\ Len(outbox'[c]) = Len(outbox[c]) + 1
             /\ outbox'[c][Len(outbox'[c])].action \in
                  {"start", "pause", "skip"} ]_vars
  /\ [][ \A c \in Clients :
          (~isRunning[c] /\ isRunning'[c]) => handleTimerUpdate(c) ]_vars
  /\ [][ \A c \in Clients :
          handleReset(c)
          => /\ timeRemaining'[c] = getCurrentDuration(c)
             /\ ~isRunning'[c]
             /\ outbox'[c] =
                  Append(outbox[c], [action |-> "reset",
                                     time |-> getCurrentDuration(c),
                                     mode |-> mode[c]]) ]_vars
  /\ [][ \A c \in Clients : \A m \in Modes :
          handleSetMode(c, m)
          => LET newTime == GetDuration(m, selectedPreset[c],
                                        customDurations[c])
             IN  /\ mode'[c] = m
                 /\ timeRemaining'[c] = newTime
                 /\ outbox'[c] =
                      Append(outbox[c], [action |-> "set_mode",
                                         time |-> newTime,
                                         mode |-> m]) ]_vars

\* a user clicked Start: the start is emitted and the user's own timer is
\* still stopped at the full duration
C32_Witness ==
  \E c \in Clients :
    /\ nActions = 1
    /\ outbox[c] = << [action |-> "start", time |-> DEFAULT_POMODORO_TIME,
                       mode |-> "pomodoro"] >>
    /\ ~isRunning[c]
    /\ timeRemaining[c] = DEFAULT_POMODORO_TIME

\* C33: while a client stays in its session, a change of the App view
\* leaves mode, timeRemaining, isRunning and the completed-pomodoro count
\* of its timer as they are, and every timer_update that reaches the client
\* is handled by the timer_update listener.
C33_ViewSwitchKeepsTimer ==
  /\ [][ \A c \in Clients : \A view \in Views :
          (setCurrentView(c, view) /\ sessionRoom[c] # NoRoom)
          => /\ mode'[c] = mode[c]
             /\ timeRemaining'[c] = timeRemaining[c]
             /\ isRunning'[c] = isRunning[c]
             /\ pomodoroCount'[c] = pomodoroCount[c] ]_vars
  /\ [][ \A c \in Clients :
          (sessionRoom[c] # NoRoom /\ inbox[c] # << >>
             /\ inbox'[c] = Tail(inbox[c]))
          => handleTimerUpdate(c) ]_vars

\* C35: the sessionRoom of a client changes from one room to a different
\* room only after the client has emitted leave_room for the first one;
\* this holds also when an invitation is received and accepted during a
\* session.  (No component takes a leave_room out of sockOut here, so
\* sockOut holds every leave_room the client has emitted.)
C35_NoDirectSessionChange ==
  [][ \A c \in Clients :
        (/\ sessionRoom[c] # NoRoom
         /\ sessionRoom'[c] # NoRoom
         /\ sessionRoom'[c] # sessionRoom[c])
        => \E k \in 1..Len(sockOut[c]) :
             /\ sockOut[c][k].type = "leave_room"
             /\ sockOut[c][k].room_id = sessionRoom[c] ]_vars

\* C36: in every reachable state a client that shows a session partner is
\* in a session: an answer of the partner lookup that arrives after the
\* session was left is not stored.
C36_PartnerOnlyInSession ==
  \A c \in Clients : sessionPartner[c] # NoUser => sessionRoom[c] # NoRoom

\* C37: when the socket of a client that is in a session connects again,
\* the client emits join_room for its sessionRoom on the new connection.
C37_ReconnectRejoinsRoom ==
  [][ \A c \in Clients : \A viaReconnect \in BOOLEAN :
        (socket_connect(c, viaReconnect) /\ sessionRoom[c] # NoRoom)
        => \E k \in (Len(sockOut[c]) + 1)..Len(sockOut'[c]) :
             sockOut'[c][k] = [type |-> "join_room",
                               room_id |-> sessionRoom[c]] ]_vars

=============================================================================
